---- MODULE Spec2Model ----
(***************************************************************************)
(* The driver lifecycle manager of selene.core.configuration: the managed  *)
(* `driver` descriptor of Config, the driver strategies it consumes        *)
(* (build, schedule teardown, teardown, is-set, is-alive), the get-url     *)
(* strategy with its "weak" reset, and Config.with_.                       *)
(*                                                                         *)
(* Every option of the persistent dataclass lives in a Box; a config holds *)
(* a reference to the Box of each option.  A Box is named by the config    *)
(* that created it.                                                        *)
(***************************************************************************)
EXTENDS Integers, Sequences, FiniteSets, TLC

\* ---------------------------------------------------------------- bounds
MaxConfigs == 2     \* configs that exist at most: the first one and its copies
MaxInstances == 2   \* driver instances made at most, by the builder or the user
MaxAtexit  == 3     \* callbacks the atexit registry can hold
MaxQuits   == 2     \* calls of quit() on one driver whose quit() fails
MaxTimeout == 4     \* the largest config.timeout, in poll intervals
MaxEvalTime == 1    \* the longest one evaluation of a condition takes
MaxArtifacts == 3   \* file names generated, and files written, at most

Configs   == 1..MaxConfigs
Instances == 1..MaxInstances

\* ---------------------------------------------------------------- values
\* What a driver Box can hold: `...`, None, a WebDriver instance, a callable.
Unset       == [k |-> "ellipsis", id |-> 0]
None        == [k |-> "none", id |-> 0]
Inst(d)     == [k |-> "instance", id |-> d]
TheSupplier == [k |-> "callable", id |-> 0]
Values      == {Unset, None, TheSupplier} \cup {Inst(d) : d \in Instances}

callable(v) == v.k = "callable"

\* Option names as the words between their underscores: `'driver' in key`
\* is then the membership of the word, `'driver' not in options` the
\* absence of the key that is that one word.
KeyDriver     == <<"driver">>
KeyTimeout    == <<"timeout">>
KeyDriverName == <<"driver", "name">>
KeyRebuild    == <<"rebuild", "not", "alive", "driver">>
Keys          == {KeyDriver, KeyTimeout, KeyDriverName, KeyRebuild}
contains_driver(key) == \E i \in 1..Len(key) : key[i] = "driver"

VARIABLES
    nconfigs,       \* configs created so far
    driver_box,     \* driver_box[c]: the Box config c's `driver` field refers to
    box_value,      \* box_value[b]: Box.value of the Box created by config b
    rebuild_not_alive_driver,            \* per config
    reset_not_alive_driver_on_get_url,   \* storage shared by every copy
    hold_driver_at_exit,                 \* storage shared by every copy
    override_driver_with_all_driver_like_options,  \* storage shared by every copy
    atexit,         \* the registered exit callbacks, in registration order
    alive,          \* alive[d]: what the liveness probe answers for instance d
    quits,          \* quits[d]: how many times d.quit() was called by a teardown
    created,        \* driver instances made so far: 1..created exist
    exited,         \* the process has exited
    managed,        \* instances built by a config or given to one as a value
    last,           \* the last operation and what its caller observed
    wait,           \* the wait in progress: config.timeout when it was built,
                    \* its own timeout, its clock, what it did so far, and on
                    \* the timeout path the error and the hooks still to run
    reports,        \* the failure-report options of the config, _counter,
                    \* last_screenshot, last_page_source and the files written
    base_url,       \* config.base_url
    get_base_url_on_open_with_no_args,   \* config._get_base_url_on_open_with_no_args
    location,       \* location[d]: the url of the last driver.get(url) on d
    driver_name,        \* config.driver_name
    driver_remote_url,  \* config.driver_remote_url
    driver_options,     \* config.driver_options
    product,        \* what config.build_driver_strategy(config) made of them
    command,        \* the Command the last call of a command builder returned
    clipboard,      \* the text on the system clipboard
    performed,      \* the calls made on the subject of a command, in order
    result,         \* the last call of the command module and how it ended
    threads         \* threads[t]: where thread t is in its read of
                    \* config.driver, the driver it built and what it returned

vars == <<nconfigs, driver_box, box_value, rebuild_not_alive_driver,
          reset_not_alive_driver_on_get_url, hold_driver_at_exit,
          override_driver_with_all_driver_like_options,
          atexit, alive, quits, created, exited, managed, last, wait,
          reports, base_url, get_base_url_on_open_with_no_args, location,
          driver_name, driver_remote_url, driver_options, product,
          command, clipboard, performed, result, threads>>

\* The part of the state the strategies read and write, as one record.
World == [box |-> box_value, atexit |-> atexit, alive |-> alive,
          quits |-> quits, created |-> created]

\* The value in the Box config c's driver field refers to.
Handle(c) == box_value[driver_box[c]]

\* ------------------------------------------------------------ strategies
is_driver_set_OnlyEllipsis(driver) == driver # Unset

is_driver_set_strategy(driver) == driver # Unset /\ driver # None

\* Both branches of the default probe answer whether the instance is still
\* running; whatever is not a driver has neither `service` nor
\* `window_handles`, and the error is returned as False.
is_driver_alive_strategy(w, driver) ==
    IF driver.k = "instance" THEN w.alive[driver.id] ELSE FALSE

quit(w, d) ==
    [w EXCEPT !.alive[d] = FALSE, !.quits[d] = @ + 1]

teardown_NoAliveCheck(w, driver) ==
    IF ~hold_driver_at_exit /\ driver.k = "instance"
    THEN quit(w, driver.id)
    ELSE w

teardown_IgnoreHold(w, driver) ==
    IF is_driver_set_strategy(driver) /\ is_driver_alive_strategy(w, driver)
    THEN quit(w, driver.id)
    ELSE w

teardown_driver_strategy(w, driver) ==
    IF /\ ~hold_driver_at_exit
       /\ is_driver_set_strategy(driver)
       /\ is_driver_alive_strategy(w, driver)
    THEN quit(w, driver.id)
    ELSE w

\* The teardown strategy when driver.quit() may raise: `qerr` is whether it
\* does, `stays` whether the driver is still running after it did.  The
\* conditional expression has no handler around the call.
teardown_outcome(w, driver, qerr, stays) ==
    IF /\ ~hold_driver_at_exit
       /\ is_driver_set_strategy(driver)
       /\ is_driver_alive_strategy(w, driver)
    THEN IF qerr
         THEN [w |-> [w EXCEPT !.quits[driver.id] = @ + 1,
                               !.alive[driver.id] = stays],
               raised |-> TRUE]
         ELSE [w |-> quit(w, driver.id), raised |-> FALSE]
    ELSE [w |-> w, raised |-> FALSE]

schedule_driver_teardown_strategy(w, c, value) ==
    [w EXCEPT !.atexit = Append(@, [config |-> c, value |-> value])]

\* ------------------------------------------------------------- executor
\* The raw value of the driver field, read without the descriptor.
driver_instance(w, c) == w.box[driver_box[c]]

executor_is_driver_set(w, c) == is_driver_set_strategy(driver_instance(w, c))

\* on_error_return_false(lambda: ...): the answer, or False on an error.
on_error_return_false(raises, answer) == IF raises THEN FALSE ELSE answer

\* The default probe with its errors: an object with a `service` has
\* service.process polled outside any handler, any other object has
\* window_handles read under on_error_return_false.
is_driver_alive_outcome(w, driver, service, err) ==
    IF service
    THEN [answer |-> ~err /\ is_driver_alive_strategy(w, driver), raised |-> err]
    ELSE [answer |-> on_error_return_false(
                         err, is_driver_alive_strategy(w, driver)),
          raised |-> FALSE]

executor_is_driver_alive(w, c, service, err) ==
    is_driver_alive_outcome(w, driver_instance(w, c), service, err)

\* A new driver instance comes to exist: WebDriver(...), in the builder or
\* in the user's code.
NextInstance(w) == w.created + 1
make_driver(w) ==
    [w EXCEPT !.created = @ + 1, !.alive[NextInstance(w)] = TRUE]

\* The world once the value given to an operation exists.
given(w, value) ==
    IF value.k = "instance" /\ value.id = NextInstance(w)
    THEN make_driver(w)
    ELSE w

\* A result of an operation: the world after it and what the caller saw.
Result(w, ret, raised, builds, calls, probes) ==
    [w |-> w, ret |-> ret, raised |-> raised,
     builds |-> builds, calls |-> calls, probes |-> probes]

\* ------------------------------------------------------------ descriptor
\* Whether __get__ takes the build path, and whether deciding it probed.
get_probes(w, c) ==
    LET v == w.box[driver_box[c]] IN
    v # None /\ v # Unset /\ rebuild_not_alive_driver[c] /\ ~callable(v)

needs_build_EveryRead(w, c) == ~callable(w.box[driver_box[c]])

needs_build_NoStrong(w, c) ==
    LET v == w.box[driver_box[c]] IN
    v = None \/ v = Unset

needs_build_IgnoreFlag(w, c) ==
    LET v == w.box[driver_box[c]] IN
    \/ v = None
    \/ v = Unset
    \/ (~callable(v) /\ ~is_driver_alive_strategy(w, v))

needs_build(w, c) ==
    LET v == w.box[driver_box[c]] IN
    \/ v = None
    \/ v = Unset
    \/ /\ rebuild_not_alive_driver[c]
       /\ ~callable(v)
       /\ ~is_driver_alive_strategy(w, v)

\* The build path: build, store in the Box, schedule the teardown.
build_and_store_NoStore(w, c) ==
    LET d  == NextInstance(w)
        w1 == make_driver(w)
    IN  schedule_driver_teardown_strategy(w1, c, Inst(d))

build_and_store(w, c) ==
    LET d  == NextInstance(w)
        w1 == make_driver(w)
        w2 == [w1 EXCEPT !.box[driver_box[c]] = Inst(d)]
    IN  schedule_driver_teardown_strategy(w2, c, Inst(d))

\* What reading a Box value returns: a callable is called, anything else
\* is returned as it is.  `sup` is what the callable returns this time.
read_value_CachesSupplier(w, c, sup) ==
    LET value == w.box[driver_box[c]] IN
    IF callable(value)
    THEN Result([given(w, Inst(sup)) EXCEPT !.box[driver_box[c]] = Inst(sup)],
                Inst(sup), FALSE, 0, 1, 0)
    ELSE Result(w, value, FALSE, 0, 0, 0)

read_value(w, c, sup) ==
    LET value == w.box[driver_box[c]] IN
    IF callable(value)
    THEN Result(given(w, Inst(sup)), Inst(sup), FALSE, 0, 1, 0)
    ELSE Result(w, value, FALSE, 0, 0, 0)

descriptor_get_ResetsOnFailure(w, c, ok, sup) ==
    LET p == IF get_probes(w, c) THEN 1 ELSE 0 IN
    IF needs_build(w, c)
    THEN IF ok
         THEN LET r == read_value(build_and_store(w, c), c, sup)
              IN  Result(r.w, r.ret, FALSE, 1, r.calls, p)
         ELSE Result([w EXCEPT !.box[driver_box[c]] = Unset], None, TRUE, 1, 0, p)
    ELSE LET r == read_value(w, c, sup)
         IN  Result(r.w, r.ret, FALSE, 0, r.calls, p)

\* _ManagedDriverDescriptor.__get__: `ok` is whether build_driver_strategy
\* returns (or raises), `sup` what a callable in the Box returns.
descriptor_get(w, c, ok, sup) ==
    LET p == IF get_probes(w, c) THEN 1 ELSE 0 IN
    IF needs_build(w, c)
    THEN IF ok
         THEN LET r == read_value(build_and_store(w, c), c, sup)
              IN  Result(r.w, r.ret, FALSE, 1, r.calls, p)
         ELSE Result(w, None, TRUE, 1, 0, p)
    ELSE LET r == read_value(w, c, sup)
         IN  Result(r.w, r.ret, FALSE, 0, r.calls, p)

\* _ManagedDriverDescriptor.__set__ after init.
descriptor_set_StoredOnDescriptor(w, c, value) ==
    LET w1 == [w EXCEPT !.box = [b \in Configs |-> value]] IN
    IF ~callable(value)
    THEN schedule_driver_teardown_strategy(w1, c, value)
    ELSE w1

descriptor_set_QuitsPrevious(w, c, value) ==
    LET old == w.box[driver_box[c]]
        w0  == IF old.k = "instance" /\ w.alive[old.id] THEN quit(w, old.id) ELSE w
        w1  == [w0 EXCEPT !.box[driver_box[c]] = value]
    IN  IF ~callable(value)
        THEN schedule_driver_teardown_strategy(w1, c, value)
        ELSE w1

descriptor_set(w, c, value) ==
    LET w1 == [w EXCEPT !.box[driver_box[c]] = value] IN
    IF ~callable(value)
    THEN schedule_driver_teardown_strategy(w1, c, value)
    ELSE w1

\* ---------------------------------------------------------------- get url
\* The condition of the weak reset and whether evaluating it probed.
get_url_probes(w, c) ==
    LET v == w.box[driver_box[c]] IN
    /\ reset_not_alive_driver_on_get_url
    /\ is_driver_set_strategy(v)
    /\ ~callable(v)

get_url_resets_WhenAlive(w, c) ==
    LET v == w.box[driver_box[c]] IN
    /\ reset_not_alive_driver_on_get_url
    /\ is_driver_set_strategy(v)
    /\ ~callable(v)
    /\ is_driver_alive_strategy(w, v)

get_url_resets(w, c) ==
    LET v == w.box[driver_box[c]] IN
    /\ reset_not_alive_driver_on_get_url
    /\ is_driver_set_strategy(v)
    /\ ~callable(v)
    /\ ~is_driver_alive_strategy(w, v)

\* _maybe_reset_driver_then_tune_window_and_get_with_base_url(config)(url):
\* the reset, then the one read of config.driver the navigation uses.
get_url(w, c, ok, sup) ==
    LET p  == IF get_url_probes(w, c) THEN 1 ELSE 0
        w1 == IF get_url_resets(w, c) THEN descriptor_set(w, c, Unset) ELSE w
        r  == descriptor_get(w1, c, ok, sup)
    IN  Result(r.w, r.ret, r.raised, r.builds, r.calls, r.probes + p)

\* ------------------------------------------------------------------ exit
\* The exit callbacks run last registered first; each one is
\* config._teardown_driver_strategy(config)(get_driver()).
RECURSIVE run_atexit_ReadsHandle(_, _)
run_atexit_ReadsHandle(w, cbs) ==
    IF cbs = <<>>
    THEN w
    ELSE run_atexit_ReadsHandle(
             teardown_driver_strategy(w, w.box[driver_box[cbs[Len(cbs)].config]]),
             SubSeq(cbs, 1, Len(cbs) - 1))

RECURSIVE run_atexit(_, _)
run_atexit(w, cbs) ==
    IF cbs = <<>>
    THEN w
    ELSE run_atexit(teardown_driver_strategy(w, cbs[Len(cbs)].value),
                    SubSeq(cbs, 1, Len(cbs) - 1))

\* ----------------------------------------------------------------- with_
\* The options persistent.replace receives.
with_options_AlwaysDriver(c, keys) == keys \cup {KeyDriver}

with_options_OnlyDriverName(c, keys) ==
    IF /\ override_driver_with_all_driver_like_options
       /\ KeyDriver \notin keys
       /\ KeyDriverName \in keys
    THEN keys \cup {KeyDriver}
    ELSE keys

with_options(c, keys) ==
    IF /\ override_driver_with_all_driver_like_options
       /\ KeyDriver \notin keys
       /\ \E key \in keys : contains_driver(key)
    THEN keys \cup {KeyDriver}
    ELSE keys

\* The value `driver` is overridden with: `...` when added implicitly.
with_driver_value(keys, dv) == IF KeyDriver \in keys THEN dv ELSE Unset

\* persistent.replace for the driver field: an option that is overridden
\* gets a Box of its own, any other keeps referring to the source's Box.
replace_driver_box(c, n, options) ==
    IF KeyDriver \in options THEN n ELSE driver_box[c]

\* __set__ on init of the new config n: a Box passed by replace is stored
\* as it is; a value gets a new Box and, unless callable, a teardown.
descriptor_set_on_init(w, n, boxed, value) ==
    IF boxed
    THEN w
    ELSE LET w1 == [w EXCEPT !.box[n] = value] IN
         IF ~callable(value)
         THEN schedule_driver_teardown_strategy(w1, n, value)
         ELSE w1

\* ------------------------------------------------------------------ wait
\* No error reached the caller of the wait (yet).
NoError == [kind |-> "none", msg |-> <<>>]

\* No wait was started yet.
NoWait == [pc |-> "none", timeout |-> 0, at_most |-> 0, elapsed |-> 0,
           log |-> <<>>, error |-> NoError, chain |-> <<>>]

\* The sleep between two attempts, the unit of the wait's clock.
PollInterval == 1

\* The float default of Config.timeout, in seconds.
DefaultTimeout == 4

build_wait_strategy_DefaultWhenFalsy(timeout) ==
    [at_most |-> IF timeout = 0 THEN DefaultTimeout ELSE timeout]

\* config._build_wait_strategy(config)(entity): Wait(entity,
\* at_most=config.timeout, or_fail_with=..., _decorator=...).
build_wait_strategy(timeout) == [at_most |-> timeout]

\* wait.until(condition) records the start time and enters the loop.
until(w) == [pc |-> "evaluate", timeout |-> w.at_most, at_most |-> w.at_most,
             elapsed |-> 0, log |-> <<>>, error |-> NoError, chain |-> <<>>]

\* The timeout path: the error goes through the hook chain, then up.
fail_with_hook(w) == [w EXCEPT !.pc = "timed_out", !.log = Append(@, "hook")]

evaluate_SleepsAfterSuccess(w, outcome, dur) ==
    LET w1 == [w EXCEPT !.elapsed = @ + dur, !.log = Append(@, outcome)] IN
    CASE outcome = "success"   ->
            [w1 EXCEPT !.pc = "returned", !.elapsed = @ + PollInterval,
                       !.log = Append(@, "sleep")]
      [] outcome = "fatal"     -> [w1 EXCEPT !.pc = "raised"]
      [] outcome = "transient" ->
            IF w1.elapsed < w1.at_most
            THEN [w1 EXCEPT !.pc = "sleep"]
            ELSE fail_with_hook(w1)

evaluate_FatalThroughTimeout(w, outcome, dur) ==
    LET w1 == [w EXCEPT !.elapsed = @ + dur, !.log = Append(@, outcome)] IN
    CASE outcome = "success"   -> [w1 EXCEPT !.pc = "returned"]
      [] outcome = "fatal"     ->
            IF w1.elapsed < w1.at_most
            THEN [w1 EXCEPT !.pc = "sleep"]
            ELSE fail_with_hook(w1)
      [] outcome = "transient" ->
            IF w1.elapsed < w1.at_most
            THEN [w1 EXCEPT !.pc = "sleep"]
            ELSE fail_with_hook(w1)

\* One attempt of the loop: the condition is evaluated, which takes `dur`;
\* a value is returned at once, a fatal error is raised at once, a
\* transient failure is retried after a sleep while now < deadline and
\* otherwise becomes the timeout failure.
evaluate(w, outcome, dur) ==
    LET w1 == [w EXCEPT !.elapsed = @ + dur, !.log = Append(@, outcome)] IN
    CASE outcome = "success"   -> [w1 EXCEPT !.pc = "returned"]
      [] outcome = "fatal"     -> [w1 EXCEPT !.pc = "raised"]
      [] outcome = "transient" ->
            IF w1.elapsed < w1.at_most
            THEN [w1 EXCEPT !.pc = "sleep"]
            ELSE fail_with_hook(w1)

\* The blocking sleep of one poll interval before the next attempt.
sleep(w) == [w EXCEPT !.pc = "evaluate", !.elapsed = @ + PollInterval,
                      !.log = Append(@, "sleep")]

Outcomes == {"success", "transient", "fatal"}

\* --------------------------------------------------------------- reports
\* The report options as Config() leaves them: both captures on, no user
\* hook, _counter at its start, nothing saved.  A path is the id the
\* counter gave it, under reports_folder, with the suffix of its kind;
\* last_screenshot = 0 stands for None.
DefaultReports ==
    [save_screenshot_on_failure |-> TRUE, save_page_source_on_failure |-> TRUE,
     hook_wait_failure |-> FALSE, counter |-> 1,
     last_screenshot |-> 0, last_page_source |-> 0, writes |-> <<>>]

\* The same under any setting of the two toggles and of the user hook.
ConfiguredReports ==
    {[DefaultReports EXCEPT !.save_screenshot_on_failure = s,
                            !.save_page_source_on_failure = p,
                            !.hook_wait_failure = h] :
        s \in BOOLEAN, p \in BOOLEAN, h \in BOOLEAN}

\* What a capture runs into: the file is saved; the driver raises a
\* WebDriverException; the file system raises while the folder is made;
\* build_driver_strategy raises, a WebDriverException or something else.
CaptureOutcomes ==
    {"saved", "WebDriverException", "OSError",
     "BuilderWebDriverException", "BuilderError"}

BuilderRaises(out) == out \in {"BuilderWebDriverException", "BuilderError"}

\* The world and the reports a hook works on, as one record.
Session == [w |-> World, r |-> reports]

\* The result of a step that may raise: the session after it, the value
\* and the kind of error raised, "none" when it returned.
Step(st, value, raised) == [st |-> st, value |-> value, raised |-> raised]

\* next(config._counter)
next_counter(st) == [st EXCEPT !.r.counter = @ + 1]

\* Config._generate_filename: the id is taken, then the folder is made.
generate_filename(st, out) ==
    Step(next_counter(st), st.r.counter,
         IF out = "OSError" THEN "OSError" ELSE "none")

\* config.driver.<capture>: the descriptor's read, then the driver's call,
\* which raises on a driver that is not alive.
driver_capture(st, c, out, sup) ==
    LET r == descriptor_get(st.w, c, ~BuilderRaises(out), sup) IN
    IF r.raised
    THEN Step(st, 0, IF out = "BuilderWebDriverException"
                     THEN "WebDriverException" ELSE "BuilderError")
    ELSE Step([st EXCEPT !.w = r.w], 0,
              IF out = "saved" /\ is_driver_alive_strategy(r.w, r.ret)
              THEN "none" ELSE "WebDriverException")

\* The file `id` of kind `kind` is written.
write(st, kind, id) ==
    [st EXCEPT !.r.writes = Append(@, [kind |-> kind, id |-> id])]

\* Config._save_screenshot_strategy(config) with no path.
save_screenshot_strategy(st, c, out, sup) ==
    LET f == generate_filename(st, out) IN
    IF f.raised # "none"
    THEN f
    ELSE LET d == driver_capture(f.st, c, out, sup) IN
         IF d.raised # "none"
         THEN d
         ELSE Step([write(d.st, "png", f.value)
                        EXCEPT !.r.last_screenshot = f.value],
                   f.value, "none")

\* Config._save_page_source_strategy(config, path) with an .html path.
save_page_source_strategy(st, c, id, out, sup) ==
    IF out = "OSError"
    THEN Step(st, 0, "OSError")
    ELSE LET d == driver_capture(st, c, out, sup) IN
         IF d.raised # "none"
         THEN d
         ELSE Step([write(d.st, "html", id)
                        EXCEPT !.r.last_page_source = id],
                   id, "none")

\* fp._either(fn, or_=WebDriverException): a WebDriverException becomes a
\* returned failure, anything else keeps propagating.
either(step) ==
    IF step.raised = "WebDriverException"
    THEN [step EXCEPT !.raised = "none", !.value = -1]
    ELSE step

\* TimeoutException(error.msg + note): the path, or why there is none.
with_note(error, name, value) ==
    [kind |-> "TimeoutException",
     msg  |-> Append(error.msg,
                     [hook |-> name,
                      text |-> IF value = -1
                               THEN "cannot be saved because of"
                               ELSE "file"])]

save_and_log_screenshot_SkipsNoteOnFailure(st, c, error, out, sup) ==
    LET e == either(save_screenshot_strategy(st, c, out, sup)) IN
    IF e.raised # "none"
    THEN e
    ELSE Step(e.st, IF e.value = -1 THEN error
                    ELSE with_note(error, "Screenshot", e.value), "none")

save_and_log_screenshot(st, c, error, out, sup) ==
    LET e == either(save_screenshot_strategy(st, c, out, sup)) IN
    IF e.raised # "none"
    THEN e
    ELSE Step(e.st, with_note(error, "Screenshot", e.value), "none")

\* The name of the page source is the name of the last screenshot with
\* .png replaced by .html, when there is one, and a generated one
\* otherwise; it is made before, and outside, the guarded call.
save_and_log_page_source(st, c, error, out, sup) ==
    LET f == IF st.r.last_screenshot # 0
             THEN Step(st, st.r.last_screenshot, "none")
             ELSE generate_filename(st, out)
    IN  IF f.raised # "none"
        THEN f
        ELSE LET e == either(save_page_source_strategy(f.st, c, f.value, out, sup))
             IN  IF e.raised # "none"
                 THEN e
                 ELSE Step(e.st, with_note(error, "PageSource", e.value), "none")

\* The user's hook_wait_failure: it returns the error it was given,
\* enriched.
user_hook(st, error) ==
    Step(st, [error EXCEPT !.msg = Append(@, [hook |-> "user", text |-> "seen"])],
         "none")

pipe_UserFirst(r) ==
    (IF r.hook_wait_failure THEN <<"user">> ELSE <<>>)
    \o (IF r.save_screenshot_on_failure THEN <<"Screenshot">> ELSE <<>>)
    \o (IF r.save_page_source_on_failure THEN <<"PageSource">> ELSE <<>>)

pipe_DropsUserHook(r) ==
    (IF r.save_screenshot_on_failure THEN <<"Screenshot">> ELSE <<>>)
    \o (IF r.save_page_source_on_failure THEN <<"PageSource">> ELSE <<>>)

\* fp.pipe(screenshot hook or None, page-source hook or None, hook): the
\* functions that are not None, applied from left to right.
pipe(r) ==
    (IF r.save_screenshot_on_failure THEN <<"Screenshot">> ELSE <<>>)
    \o (IF r.save_page_source_on_failure THEN <<"PageSource">> ELSE <<>>)
    \o (IF r.hook_wait_failure THEN <<"user">> ELSE <<>>)

apply_hook(h, st, c, error, out, sup) ==
    CASE h = "Screenshot" -> save_and_log_screenshot(st, c, error, out, sup)
      [] h = "PageSource" -> save_and_log_page_source(st, c, error, out, sup)
      [] h = "user"       -> user_hook(st, error)

\* The wait once a hook ran: the error it returned goes to the next hook;
\* an error it raised goes up, past the hooks that are left.
after_hook(w, step) ==
    IF step.raised = "none"
    THEN [w EXCEPT !.error = step.value, !.chain = Tail(@)]
    ELSE [w EXCEPT !.error = [kind |-> step.raised, msg |-> <<>>],
                   !.chain = <<>>]

\* --------------------------------------------------------------- actions
\* ------------------------------------------------------------------ urls
\* A str is the sequence of its parts, '' is <<>>; an Optional[str] is a
\* record that says whether it is given.
NoUrl == [given |-> FALSE, text |-> <<>>]
Url(text) == [given |-> TRUE, text |-> text]

\* if url: None and '' are both falsy.
truthy(url) == url.given /\ url.text # <<>>

Schemes == {"http://", "file://"}
BaseUrls == {<<>>, <<"http://", "app">>}
Urls == {NoUrl, Url(<<>>), Url(<<"/signin">>), Url(<<"http://", "other">>)}

\* helpers.is_absolute_url(url): the url starts with a scheme.
is_absolute_url(text) == text # <<>> /\ Head(text) \in Schemes

get_url_target_IgnoresFlag(url, base, on_open) ==
    LET relative_or_absolute_url ==
            IF ~url.given
            THEN IF base = <<>> THEN NoUrl ELSE Url(<<>>)
            ELSE url
    IN  IF ~relative_or_absolute_url.given
        THEN NoUrl
        ELSE Url(IF is_absolute_url(relative_or_absolute_url.text)
                 THEN relative_or_absolute_url.text
                 ELSE base \o relative_or_absolute_url.text)

\* The url get(url) hands to driver.get, NoUrl when it returns before.
get_url_target(url, base, on_open) ==
    LET relative_or_absolute_url ==
            IF ~url.given
            THEN IF base = <<>> \/ ~on_open THEN NoUrl ELSE Url(<<>>)
            ELSE url
    IN  IF ~relative_or_absolute_url.given
        THEN NoUrl
        ELSE Url(IF is_absolute_url(relative_or_absolute_url.text)
                 THEN relative_or_absolute_url.text
                 ELSE base \o relative_or_absolute_url.text)

\* driver.get(url) on the driver the read returned: a driver that is not
\* alive raises.
driver_get(r, target) ==
    IF r.raised \/ ~target.given
    THEN [raised |-> r.raised, at |-> 0]
    ELSE IF r.ret.k = "instance" /\ r.w.alive[r.ret.id]
         THEN [raised |-> FALSE, at |-> r.ret.id]
         ELSE [raised |-> TRUE, at |-> 0]

\* --------------------------------------------------------------- builder
NoName == ""
DriverNames == {NoName, "chrome", "firefox", "edge", "remote", "appium", "opera"}
RemoteUrls == {NoUrl, Url(<<"http://", "hub">>)}

\* driver_options is None, or an Options object with its capabilities; a
\* capability that is not there is "".
NoOptions == [set |-> FALSE, browserName |-> "", platformName |-> ""]
Options(browserName, platformName) ==
    [set |-> TRUE, browserName |-> browserName, platformName |-> platformName]
DriverOptions ==
    {NoOptions} \cup {Options(b, p) : b \in {"", "firefox"},
                                      p \in {"", "Android", "Windows"}}

\* str.lower()
lower(name) ==
    CASE name = "Android" -> "android"
      [] name = "Windows" -> "windows"
      [] OTHER -> name

DefaultAppiumUrl == Url(<<"http://", "127.0.0.1:4723/wd/hub">>)

NoProduct == [class |-> "", command_executor |-> NoUrl, options |-> NoOptions]

\* The key the builder looks up in its table of factories.
builder_key(name, remote_url, options) ==
    IF \/ name = "appium"
       \/ /\ options.set
          /\ options.platformName # ""
          /\ lower(options.platformName) \in {"android", "ios"}
    THEN "appium"
    ELSE IF truthy(remote_url) \/ name = "remote"
         THEN "remote"
         ELSE IF name # NoName
              THEN name
              ELSE IF options.set /\ options.browserName # ""
                   THEN options.browserName
                   ELSE "chrome"

\* _build_local_driver_by_name_or_remote_by_url_and_options(config): the
\* factory under the key is called; a key that is not in the table gives
\* None, and calling it raises TypeError.
build_local_driver_by_name_or_remote_by_url_and_options(name, remote_url, options) ==
    LET key == builder_key(name, remote_url, options) IN
    CASE key = "chrome"  -> [class |-> "Chrome", command_executor |-> NoUrl,
                             options |-> options]
      [] key = "firefox" -> [class |-> "Firefox", command_executor |-> NoUrl,
                             options |-> options]
      [] key = "edge"    -> [class |-> "Edge", command_executor |-> NoUrl,
                             options |-> options]
      [] key = "remote"  -> [class |-> "Remote", command_executor |-> remote_url,
                             options |-> options]
      [] key = "appium"  -> [class |-> "appium.webdriver.Remote",
                             command_executor |-> IF truthy(remote_url)
                                                  THEN remote_url
                                                  ELSE DefaultAppiumUrl,
                             options |-> options]
      [] OTHER           -> [class |-> "TypeError", command_executor |-> NoUrl,
                             options |-> NoOptions]

\* -------------------------------------------------------------- commands
MaxPerformed == 2   \* calls made on the subjects of commands at most

Texts == {<<"a", "b">>, <<"c">>}
Paths == {<<"shot.png">>}
Offsets == {1, 2}

NoText == [given |-> FALSE, text |-> <<>>]
Text(t) == [given |-> TRUE, text |-> t]

\* Command(name, fn): the name is the sequence of the parts it is formatted
\* from, the function is kept by what it closes over.
Command(name, fn, args) == [name |-> name, fn |-> fn, args |-> args]
Args(text, x, y) == [text |-> text, x |-> x, y |-> y]
NoCommand == Command(<<>>, "", Args(NoText, 0, 0))

\* The clipboard and the calls made so far, as one record.
Desk == [clipboard |-> clipboard, performed |-> performed]
Done(st, raised) == [st |-> st, raised |-> raised]
call(st, name, arg) ==
    [st EXCEPT !.performed = Append(@, [call |-> name, arg |-> arg])]

RECURSIVE send_each_key(_, _)
send_each_key(st, text) ==
    IF text = <<>>
    THEN st
    ELSE send_each_key(call(st, "send_keys_to_element", <<"END", Head(text)>>),
                       Tail(text))

\* press_sequentially(text): the Command, and its action on an element.
press_sequentially(text) ==
    Command(<<"press sequentially: ">> \o text, "press_sequentially",
            Args(Text(text), 0, 0))
press_sequentially_action(st, text, fails) ==
    IF fails
    THEN Done(st, "WebDriverException")
    ELSE Done(send_each_key(st, text), "none")

\* drag_and_drop_by_offset(x, y): the Command, and its action.
drag_and_drop_by_offset(x, y) ==
    Command(<<"drag and drop by offset: x=", ToString(x), ", y=", ToString(y)>>,
            "drag_and_drop_by_offset", Args(NoText, x, y))
drag_and_drop_by_offset_func(st, x, y, fails) ==
    IF fails
    THEN Done(st, "WebDriverException")
    ELSE Done(call(st, "drag_and_drop_by_offset", <<ToString(x), ToString(y)>>),
              "none")

\* pyperclip.copy(maybe_text), when there is a text.
maybe_copy_to_clipboard(st, maybe_text, fails) ==
    IF ~maybe_text.given
    THEN Done(st, "none")
    ELSE IF fails
         THEN Done(st, "PyperclipException")
         ELSE Done([st EXCEPT !.clipboard = maybe_text], "none")

\* The paste shortcut sent to the entity.
perform_shortcut_based_actions(st, fails) ==
    IF fails
    THEN Done(st, "WebDriverException")
    ELSE Done(call(st, "send_keys", <<"COMMAND_KEY", "v">>), "none")

paste_action_ShortcutFirst(st, maybe_text, copy_fails, keys_fail) ==
    LET first == perform_shortcut_based_actions(st, keys_fail) IN
    IF first.raised # "none"
    THEN first
    ELSE maybe_copy_to_clipboard(first.st, maybe_text, copy_fails)

\* fp.perform(maybe_copy_to_clipboard, lambda: perform_shortcut...)(): the
\* functions are called one after the other, an exception ends the call.
paste_action(st, maybe_text, copy_fails, keys_fail) ==
    LET first == maybe_copy_to_clipboard(st, maybe_text, copy_fails) IN
    IF first.raised # "none"
    THEN first
    ELSE perform_shortcut_based_actions(first.st, keys_fail)

PasteName == "paste via shortcut"

\* The Command __Paste.__call__ builds from a text or from None.
paste_command(maybe_text) ==
    Command((IF maybe_text.given
             THEN <<"copy «">> \o maybe_text.text \o <<"» to clipboard and ">>
             ELSE <<>>) \o <<PasteName>>,
            "paste", Args(maybe_text, 0, 0))

\* config._save_screenshot_strategy(config, path), as a call on the browser.
save_screenshot_action(st, path, fails) ==
    IF fails
    THEN Done(st, "WebDriverException")
    ELSE Done(call(st, "save_screenshot_strategy", path.text), "none")

\* The Command __SaveScreenshot.__call__ builds from a path or from None.
save_screenshot_command(path) ==
    Command(<<"save screenshot">>
            \o (IF path.given THEN <<" to: ">> \o path.text ELSE <<>>),
            "save_screenshot", Args(path, 0, 0))

\* command.__call__(subject): the function of the Command is applied.
invoke(st, cmd, fails, copy_fails) ==
    CASE cmd.fn = "press_sequentially" ->
            press_sequentially_action(st, cmd.args.text.text, fails)
      [] cmd.fn = "drag_and_drop_by_offset" ->
            drag_and_drop_by_offset_func(st, cmd.args.x, cmd.args.y, fails)
      [] cmd.fn = "paste" ->
            paste_action(st, cmd.args.text, copy_fails, fails)
      [] cmd.fn = "save_screenshot" ->
            save_screenshot_action(st, cmd.args.text, fails)

\* An argument of an overloaded __call__: a str, or the entity itself.
Str(t) == [type |-> "str", v |-> t]
Subject == [type |-> "entity", v |-> <<>>]

\* What a call of the command module gave: the Command returned (NoCommand
\* when it returned None), the desk after it and what it raised.
Gave(cmd, done) == [command |-> cmd, st |-> done.st, raised |-> done.raised]

\* __Paste.__call__(entity_or_text)
Paste_call(st, entity_or_text, fails, copy_fails) ==
    LET maybe_text == IF entity_or_text.type = "str"
                      THEN Text(entity_or_text.v) ELSE NoText
        cmd == paste_command(maybe_text)
    IN  IF entity_or_text.type # "str"
        THEN Gave(cmd, invoke(st, cmd, fails, copy_fails))
        ELSE Gave(cmd, Done(st, "none"))

SaveScreenshot_call_InvokesOnBuild(st, browser_or_path, fails) ==
    LET path == IF browser_or_path.type = "str"
                THEN Text(browser_or_path.v) ELSE NoText
        cmd == save_screenshot_command(path)
    IN  Gave(cmd, invoke(st, cmd, fails, FALSE))

\* __SaveScreenshot.__call__(browser_or_path)
SaveScreenshot_call(st, browser_or_path, fails) ==
    LET path == IF browser_or_path.type = "str"
                THEN Text(browser_or_path.v) ELSE NoText
        cmd == save_screenshot_command(path)
    IN  IF browser_or_path.type = "entity"
        THEN Gave(NoCommand, invoke(st, cmd, fails, FALSE))
        ELSE Gave(cmd, Done(st, "none"))

UrlOptionsUnchanged == UNCHANGED <<base_url, get_base_url_on_open_with_no_args>>

BuilderUnchanged ==
    UNCHANGED <<driver_name, driver_remote_url, driver_options, product>>

CommandUnchanged == UNCHANGED <<command, clipboard, performed, result>>

\* What an operation on the driver handle, or a wait, leaves alone.
\* --------------------------------------------------------------- threads
MaxThreads == 2     \* threads that read config.driver of one config

Threads == 1..MaxThreads

\* A thread outside __get__: nothing built, nothing returned.
NoThread == [pc |-> "idle", driver |-> None, ret |-> None]

get_store_KeepsFirst(w, c, driver) ==
    IF needs_build(w, c)
    THEN [w EXCEPT !.box[driver_box[c]] = driver]
    ELSE w

\* driver_box.value = driver
get_store(w, c, driver) == [w EXCEPT !.box[driver_box[c]] = driver]

OutsideUnchanged ==
    /\ UrlOptionsUnchanged
    /\ UNCHANGED location
    /\ BuilderUnchanged
    /\ CommandUnchanged

ElsewhereUnchanged ==
    /\ OutsideUnchanged
    /\ UNCHANGED threads

Fits(w) == w.created <= MaxInstances /\ Len(w.atexit) <= MaxAtexit

Commit(w) ==
    /\ box_value' = w.box
    /\ atexit' = w.atexit
    /\ alive' = w.alive
    /\ quits' = w.quits
    /\ created' = w.created

Observed(op, c, pre, r) ==
    [op |-> op, config |-> c, pre |-> pre, ret |-> r.ret, raised |-> r.raised,
     builds |-> r.builds, calls |-> r.calls, probes |-> r.probes,
     quit |-> {d \in Instances : r.w.quits[d] > quits[d]},
     keys |-> {}, src |-> 0, answer |-> FALSE, url |-> NoUrl]

NoResult(w) == Result(w, None, FALSE, 0, 0, 0)

Existing == 1..nconfigs
Known == 1..created
\* An instance that exists, or one the caller makes for the occasion.
Makeable == {d \in Instances : d <= created + 1}
Assignable == {Unset, TheSupplier} \cup {Inst(d) : d \in Makeable}
TeardownArgs == {Unset, None, TheSupplier} \cup {Inst(d) : d \in Known}

\* The instances an operation brought under a config's management.
Built(r) == IF r.builds = 1 /\ ~r.raised THEN {r.ret.id} ELSE {}
Given(value) == IF value.k = "instance" THEN {value.id} ELSE {}

OptionsUnchanged ==
    UNCHANGED <<rebuild_not_alive_driver, reset_not_alive_driver_on_get_url,
                hold_driver_at_exit, override_driver_with_all_driver_like_options>>

\* driver = config.driver
Read(c, ok, sup) ==
    /\ ~exited
    /\ c \in Existing
    /\ ok => created < MaxInstances
    /\ sup \in Makeable
    /\ LET r == descriptor_get(World, c, ok, sup) IN
       /\ Fits(r.w)
       /\ Commit(r.w)
       /\ managed' = managed \cup Built(r)
       /\ last' = Observed("read", c, box_value[driver_box[c]], r)
    /\ OptionsUnchanged
    /\ UNCHANGED <<wait, reports>>
    /\ ElsewhereUnchanged
    /\ UNCHANGED <<nconfigs, driver_box, exited>>

\* config.driver = value
Assign(c, value) ==
    /\ ~exited
    /\ c \in Existing
    /\ value \in Assignable
    /\ LET w == descriptor_set(given(World, value), c, value) IN
       /\ Fits(w)
       /\ Commit(w)
       /\ managed' = managed \cup Given(value)
       /\ last' = Observed("assign", c, box_value[driver_box[c]], NoResult(w))
    /\ OptionsUnchanged
    /\ UNCHANGED <<wait, reports>>
    /\ ElsewhereUnchanged
    /\ UNCHANGED <<nconfigs, driver_box, exited>>

\* config.driver = ... and config.driver = None
Reset(c, value) ==
    /\ ~exited
    /\ c \in Existing
    /\ value \in {Unset, None}
    /\ LET w == descriptor_set(World, c, value) IN
       /\ Fits(w)
       /\ Commit(w)
       /\ UNCHANGED managed
       /\ last' = Observed("assign", c, box_value[driver_box[c]], NoResult(w))
    /\ OptionsUnchanged
    /\ UNCHANGED <<wait, reports>>
    /\ ElsewhereUnchanged
    /\ UNCHANGED <<nconfigs, driver_box, exited>>

\* config._executor.get_url(url), with no window size configured
GetUrl(c, url, ok, sup) ==
    /\ ~exited
    /\ c \in Existing
    /\ ok => created < MaxInstances
    /\ sup \in Makeable
    /\ LET r == get_url(World, c, ok, sup)
           target == get_url_target(url, base_url,
                                    get_base_url_on_open_with_no_args)
           got == driver_get(r, target)
       IN
       /\ Fits(r.w)
       /\ Commit(r.w)
       /\ managed' = managed \cup Built(r)
       /\ last' = [Observed("get_url", c, box_value[driver_box[c]], r)
                      EXCEPT !.raised = got.raised, !.url = url]
       /\ location' = IF got.at # 0
                      THEN [location EXCEPT ![got.at] = target]
                      ELSE location
    /\ OptionsUnchanged
    /\ UNCHANGED <<wait, reports>>
    /\ UrlOptionsUnchanged
    /\ BuilderUnchanged
    /\ CommandUnchanged
    /\ UNCHANGED threads
    /\ UNCHANGED <<nconfigs, driver_box, exited>>

\* config._executor.is_driver_set
IsDriverSet(c) ==
    /\ ~exited
    /\ c \in Existing
    /\ last' = [Observed("is_driver_set", c, box_value[driver_box[c]],
                          NoResult(World))
                   EXCEPT !.answer = executor_is_driver_set(World, c)]
    /\ OptionsUnchanged
    /\ UNCHANGED <<wait, reports>>
    /\ ElsewhereUnchanged
    /\ UNCHANGED <<nconfigs, driver_box, box_value, atexit, alive, quits,
                   created, exited, managed>>

\* config._executor.is_driver_alive, on a driver object that has a
\* `service` attribute or not, whose probed attributes raise or not.
IsDriverAlive(c, service, err) ==
    /\ ~exited
    /\ c \in Existing
    /\ box_value[driver_box[c]].k # "instance" => (~service /\ err)
    /\ LET o == executor_is_driver_alive(World, c, service, err) IN
       last' = [Observed("is_driver_alive", c, box_value[driver_box[c]],
                         NoResult(World))
                   EXCEPT !.answer = o.answer, !.raised = o.raised]
    /\ OptionsUnchanged
    /\ UNCHANGED <<wait, reports>>
    /\ ElsewhereUnchanged
    /\ UNCHANGED <<nconfigs, driver_box, box_value, atexit, alive, quits,
                   created, exited, managed>>

\* config._executor.teardown(driver)
Teardown(c, value) ==
    /\ ~exited
    /\ c \in Existing
    /\ value \in TeardownArgs
    /\ LET w == teardown_driver_strategy(World, value) IN
       /\ Commit(w)
       /\ UNCHANGED managed
       /\ last' = [Observed("teardown", c, value, NoResult(w))
                      EXCEPT !.ret = value]
    /\ OptionsUnchanged
    /\ UNCHANGED <<wait, reports>>
    /\ ElsewhereUnchanged
    /\ UNCHANGED <<nconfigs, driver_box, exited>>

\* config._executor.teardown(driver) on a driver whose quit() may raise.
TeardownQuit(c, value, qerr, stays) ==
    /\ ~exited
    /\ c \in Existing
    /\ value \in TeardownArgs
    /\ LET o == teardown_outcome(World, value, qerr, stays) IN
       /\ \A d \in Instances : o.w.quits[d] <= MaxQuits
       /\ Commit(o.w)
       /\ UNCHANGED managed
       /\ last' = [Observed("teardown", c, value, NoResult(o.w))
                      EXCEPT !.ret = value, !.raised = o.raised]
    /\ OptionsUnchanged
    /\ UNCHANGED <<wait, reports>>
    /\ ElsewhereUnchanged
    /\ UNCHANGED <<nconfigs, driver_box, exited>>

\* Everything but the wait in progress.
DriverUnchanged ==
    UNCHANGED <<nconfigs, driver_box, box_value, rebuild_not_alive_driver,
                reset_not_alive_driver_on_get_url, hold_driver_at_exit,
                override_driver_with_all_driver_like_options,
                atexit, alive, quits, created, exited, managed, last>>

\* config.timeout = timeout; config.wait(entity).until(condition) begins.
WaitUntil(timeout) ==
    /\ ~exited
    /\ wait.pc \in {"none", "returned", "raised", "timed_out"}
    /\ wait.pc = "timed_out" => (wait.error # NoError /\ wait.chain = <<>>)
    /\ timeout \in 0..MaxTimeout
    /\ wait' = [until(build_wait_strategy(timeout)) EXCEPT !.timeout = timeout]
    /\ DriverUnchanged
    /\ UNCHANGED reports
    /\ ElsewhereUnchanged

\* The loop evaluates condition(entity).
Evaluate(outcome, dur) ==
    /\ wait.pc = "evaluate"
    /\ outcome \in Outcomes
    /\ dur \in 0..MaxEvalTime
    /\ wait' = evaluate(wait, outcome, dur)
    /\ DriverUnchanged
    /\ UNCHANGED reports
    /\ ElsewhereUnchanged

\* The loop sleeps before it retries.
Sleep ==
    /\ wait.pc = "sleep"
    /\ wait' = sleep(wait)
    /\ DriverUnchanged
    /\ UNCHANGED reports
    /\ ElsewhereUnchanged

\* The timeout path of the wait: the TimeoutException is made and given
\* to or_fail_with, the chain of Config._inject_..._pre_hooks(hook).
OrFailWith ==
    /\ wait.pc = "timed_out"
    /\ wait.error = NoError
    /\ wait' = [wait EXCEPT !.error = [kind |-> "TimeoutException", msg |-> <<>>],
                            !.chain = pipe(reports)]
    /\ DriverUnchanged
    /\ UNCHANGED reports
    /\ ElsewhereUnchanged

\* The next hook of the chain runs on the error; `out` is what its capture
\* runs into, `sup` what a callable in the handle returns.
Hook(out, sup) ==
    /\ wait.pc = "timed_out"
    /\ wait.chain # <<>>
    /\ out \in CaptureOutcomes
    /\ sup \in Makeable
    /\ LET res == apply_hook(Head(wait.chain), Session, 1, wait.error, out, sup)
       IN
       /\ Fits(res.st.w)
       /\ res.st.r.counter <= MaxArtifacts + 1
       /\ Len(res.st.r.writes) <= MaxArtifacts
       /\ Commit(res.st.w)
       /\ managed' = managed \cup {d \in Instances :
                                      created < d /\ d <= res.st.w.created}
       /\ reports' = res.st.r
       /\ wait' = after_hook(wait, res)
    /\ OptionsUnchanged
    /\ UNCHANGED <<nconfigs, driver_box, exited, last>>
    /\ ElsewhereUnchanged

\* new = config.with_(**options_to_override)
\* What an operation on the options of the builder, or a command, leaves
\* alone of the drivers and the waits.
DriversAndWaitsUnchanged ==
    /\ DriverUnchanged
    /\ UNCHANGED <<wait, reports, location, threads>>
    /\ UrlOptionsUnchanged

\* config.driver_name = name
SetDriverName(name) ==
    /\ name \in DriverNames
    /\ driver_name' = name
    /\ product' = NoProduct
    /\ UNCHANGED <<driver_remote_url, driver_options>>
    /\ DriversAndWaitsUnchanged
    /\ CommandUnchanged

\* config.driver_remote_url = url
SetDriverRemoteUrl(url) ==
    /\ url \in RemoteUrls
    /\ driver_remote_url' = url
    /\ product' = NoProduct
    /\ UNCHANGED <<driver_name, driver_options>>
    /\ DriversAndWaitsUnchanged
    /\ CommandUnchanged

\* config.driver_options = options
SetDriverOptions(options) ==
    /\ options \in DriverOptions
    /\ driver_options' = options
    /\ product' = NoProduct
    /\ UNCHANGED <<driver_name, driver_remote_url>>
    /\ DriversAndWaitsUnchanged
    /\ CommandUnchanged

\* config.build_driver_strategy(config), the default one
BuildDriver ==
    /\ product' = build_local_driver_by_name_or_remote_by_url_and_options(
                      driver_name, driver_remote_url, driver_options)
    /\ UNCHANGED <<driver_name, driver_remote_url, driver_options>>
    /\ DriversAndWaitsUnchanged
    /\ CommandUnchanged

\* What a call of the command module leaves: the desk it gave, the Command
\* it returned when it returned one, and how it ended.
Given_(op, subject, gave) ==
    /\ Len(gave.st.performed) <= MaxPerformed
    /\ clipboard' = gave.st.clipboard
    /\ performed' = gave.st.performed
    /\ command' = IF gave.raised = "none" /\ gave.command # NoCommand
                  THEN gave.command ELSE command
    /\ result' = [op |-> op, command |-> subject, raised |-> gave.raised]
    /\ DriversAndWaitsUnchanged
    /\ BuilderUnchanged

\* command.press_sequentially(text)
PressSequentially(text) ==
    /\ text \in Texts
    /\ Given_("build", press_sequentially(text),
              Gave(press_sequentially(text), Done(Desk, "none")))

\* command.drag_and_drop_by_offset(x, y)
DragAndDropByOffset(x, y) ==
    /\ x \in Offsets
    /\ y \in Offsets
    /\ Given_("build", drag_and_drop_by_offset(x, y),
              Gave(drag_and_drop_by_offset(x, y), Done(Desk, "none")))

\* command.paste(text) and command.paste(entity)
Paste(entity_or_text, fails, copy_fails) ==
    /\ entity_or_text \in {Subject} \cup {Str(t) : t \in Texts}
    /\ LET gave == Paste_call(Desk, entity_or_text, fails, copy_fails) IN
       Given_(IF entity_or_text.type = "str" THEN "build" ELSE "call",
              gave.command, gave)

\* command.save_screenshot(path) and command.save_screenshot(browser)
SaveScreenshot(browser_or_path, fails) ==
    /\ browser_or_path \in {Subject} \cup {Str(t) : t \in Paths}
    /\ LET gave == SaveScreenshot_call(Desk, browser_or_path, fails) IN
       Given_(IF browser_or_path.type = "str" THEN "build" ELSE "call",
              IF browser_or_path.type = "str"
              THEN gave.command ELSE save_screenshot_command(NoText),
              gave)

\* entity.perform(command): the Command built last is called on a subject.
Perform(fails, copy_fails) ==
    /\ command # NoCommand
    /\ Given_("call", command,
              Gave(NoCommand, invoke(Desk, command, fails, copy_fails)))

\* config.hold_driver_at_exit = value
SetHoldDriverAtExit(value) ==
    /\ ~exited
    /\ value \in BOOLEAN
    /\ hold_driver_at_exit' = value
    /\ UNCHANGED <<nconfigs, driver_box, box_value, rebuild_not_alive_driver,
                   reset_not_alive_driver_on_get_url,
                   override_driver_with_all_driver_like_options,
                   atexit, alive, quits, created, exited, managed, last>>
    /\ UNCHANGED <<wait, reports>>
    /\ ElsewhereUnchanged

\* What one step of a thread inside __get__ leaves alone.
ThreadStepUnchanged ==
    /\ OptionsUnchanged
    /\ UNCHANGED <<nconfigs, driver_box, exited, last, wait, reports>>
    /\ OutsideUnchanged

\* Thread t enters config.driver and evaluates the condition of the build.
GetCheck(t, c) ==
    /\ ~exited
    /\ c \in Existing
    /\ threads[t].pc = "idle"
    /\ threads' = [threads EXCEPT ![t] =
                      [NoThread EXCEPT !.pc = IF needs_build(World, c)
                                               THEN "build" ELSE "read"]]
    /\ UNCHANGED <<box_value, atexit, alive, quits, created, managed>>
    /\ ThreadStepUnchanged

\* driver = config.build_driver_strategy(config); when the builder raises
\* the exception leaves __get__.
GetBuild(t, c, ok) ==
    /\ threads[t].pc = "build"
    /\ ok => created < MaxInstances
    /\ IF ok
       THEN /\ threads' = [threads EXCEPT ![t].pc = "store",
                                          ![t].driver = Inst(NextInstance(World))]
            /\ Commit(make_driver(World))
            /\ managed' = managed \cup {NextInstance(World)}
       ELSE /\ threads' = [threads EXCEPT ![t].pc = "done"]
            /\ UNCHANGED <<box_value, atexit, alive, quits, created, managed>>
    /\ ThreadStepUnchanged

\* driver_box.value = driver
GetStore(t, c) ==
    /\ threads[t].pc = "store"
    /\ threads' = [threads EXCEPT ![t].pc = "schedule"]
    /\ Commit(get_store(World, c, threads[t].driver))
    /\ UNCHANGED managed
    /\ ThreadStepUnchanged

\* config._schedule_driver_teardown_strategy(config, lambda: driver)
GetSchedule(t, c) ==
    /\ threads[t].pc = "schedule"
    /\ Len(atexit) < MaxAtexit
    /\ threads' = [threads EXCEPT ![t].pc = "read"]
    /\ Commit(schedule_driver_teardown_strategy(World, c, threads[t].driver))
    /\ UNCHANGED managed
    /\ ThreadStepUnchanged

\* value = driver_box.value; return value
GetReturn(t, c) ==
    /\ threads[t].pc = "read"
    /\ threads' = [threads EXCEPT ![t].pc = "done",
                                  ![t].ret = read_value(World, c, 1).ret]
    /\ UNCHANGED <<box_value, atexit, alive, quits, created, managed>>
    /\ ThreadStepUnchanged

\* The caller goes on and may read config.driver again.
GetDone(t) ==
    /\ threads[t].pc = "done"
    /\ threads' = [threads EXCEPT ![t] = NoThread]
    /\ UNCHANGED <<box_value, atexit, alive, quits, created, managed>>
    /\ ThreadStepUnchanged

With(c, keys, dv, rv) ==
    /\ ~exited
    /\ c \in Existing
    /\ nconfigs < MaxConfigs
    /\ dv \in Assignable
    /\ KeyDriver \notin keys => dv = Unset
    /\ KeyRebuild \notin keys => rv = rebuild_not_alive_driver[c]
    /\ LET n       == nconfigs + 1
           options == with_options(c, keys)
           value   == with_driver_value(keys, dv)
           w       == descriptor_set_on_init(given(World, value), n,
                                             KeyDriver \notin options, value)
       IN
       /\ Fits(w)
       /\ Commit(w)
       /\ managed' = managed \cup Given(value)
       /\ nconfigs' = n
       /\ driver_box' = [driver_box EXCEPT ![n] = replace_driver_box(c, n, options)]
       /\ rebuild_not_alive_driver' = [rebuild_not_alive_driver EXCEPT ![n] = rv]
       /\ last' = [Observed("with_", n, box_value[driver_box[c]], NoResult(w))
                      EXCEPT !.ret = dv, !.keys = keys, !.src = c]
    /\ UNCHANGED <<reset_not_alive_driver_on_get_url, hold_driver_at_exit,
                   override_driver_with_all_driver_like_options, exited, wait,
                   reports>>
    /\ ElsewhereUnchanged

\* The driver process dies on its own or is quit by its user.
Crash(d) ==
    /\ ~exited
    /\ d \in Known
    /\ alive[d]
    /\ alive' = [alive EXCEPT ![d] = FALSE]
    /\ last' = [Observed("crash", 0, Inst(d), NoResult(World))
                   EXCEPT !.ret = Inst(d)]
    /\ OptionsUnchanged
    /\ UNCHANGED <<wait, reports>>
    /\ ElsewhereUnchanged
    /\ UNCHANGED <<nconfigs, driver_box, box_value, atexit, quits, created, exited, managed>>

\* The process exits: atexit runs every registered callback.
Exit ==
    /\ ~exited
    /\ LET w == run_atexit(World, atexit) IN
       /\ Commit(w)
       /\ UNCHANGED managed
       /\ last' = Observed("exit", 0, None, NoResult(w))
    /\ exited' = TRUE
    /\ OptionsUnchanged
    /\ UNCHANGED <<wait, reports>>
    /\ ElsewhereUnchanged
    /\ UNCHANGED <<nconfigs, driver_box>>

\* ------------------------------------------------------------------ spec
\* What Config(...) leaves: one config, nothing built, nothing registered.
UrlDefaults ==
    /\ base_url = <<>>
    /\ get_base_url_on_open_with_no_args = FALSE
    /\ location = [d \in Instances |-> NoUrl]

BuilderDefaults ==
    /\ driver_name = NoName
    /\ driver_remote_url = NoUrl
    /\ driver_options = NoOptions
    /\ product = NoProduct

CommandDefaults ==
    /\ command = NoCommand
    /\ clipboard = NoText
    /\ performed = <<>>
    /\ result = [op |-> "init", command |-> NoCommand, raised |-> "none"]

Fresh1(handles, strong, weak, hold, override) ==
    /\ nconfigs = 1
    /\ driver_box = [c \in Configs |-> c]
    /\ box_value \in [Configs -> handles]
    /\ \A b \in Configs : b > 1 => box_value[b] = Unset
    /\ rebuild_not_alive_driver \in [Configs -> strong]
    /\ \A c \in Configs : c > 1 => ~rebuild_not_alive_driver[c]
    /\ reset_not_alive_driver_on_get_url \in weak
    /\ hold_driver_at_exit \in hold
    /\ override_driver_with_all_driver_like_options \in override
    /\ atexit = <<>>
    /\ alive = [d \in Instances |-> FALSE]
    /\ quits = [d \in Instances |-> 0]
    /\ created = 0
    /\ exited = FALSE
    /\ managed = {}
    /\ last = Observed("init", 1, Unset, NoResult(World))
    /\ wait = NoWait
    /\ threads = [t \in Threads |-> NoThread]

\* Access to the driver of one config, Config() or Config(driver=None),
\* under any setting of the two rebuild flags.
Init ==
    /\ Fresh1({Unset, None}, BOOLEAN, BOOLEAN, {FALSE}, {TRUE})
    /\ reports = DefaultReports
    /\ UrlDefaults
    /\ BuilderDefaults
    /\ CommandDefaults

Next ==
    \/ \E c \in Configs, ok \in BOOLEAN, sup \in Instances : Read(c, ok, sup)
    \/ \E c \in Configs, value \in Values : Assign(c, value)
    \/ \E c \in Configs, value \in Values : Reset(c, value)
    \/ \E c \in Configs, ok \in BOOLEAN, sup \in Instances : GetUrl(c, NoUrl, ok, sup)
    \/ \E c \in Configs : IsDriverSet(c)
    \/ \E c \in Configs, service \in BOOLEAN, err \in BOOLEAN :
          IsDriverAlive(c, service, err)
    \/ \E d \in Instances : Crash(d)

Spec == Init /\ [][Next]_vars

\* The teardown of the drivers of one config, explicit and at exit, with
\* hold_driver_at_exit on or off.
TeardownInit ==
    /\ Fresh1({Unset}, BOOLEAN, {TRUE}, BOOLEAN, {TRUE})
    /\ reports = DefaultReports
    /\ UrlDefaults
    /\ BuilderDefaults
    /\ CommandDefaults

TeardownNext ==
    \/ \E c \in Configs, ok \in BOOLEAN, sup \in Instances : Read(c, ok, sup)
    \/ \E c \in Configs, value \in Values : Assign(c, value)
    \/ \E c \in Configs, value \in Values : Teardown(c, value)
    \/ \E d \in Instances : Crash(d)
    \/ Exit

TeardownSpec == TeardownInit /\ [][TeardownNext]_vars

\* One config whose handle the user never assigns: only reads of
\* config.driver, get_url calls and the executor's queries, on drivers
\* that may die.
ManagedInit ==
    /\ Fresh1({Unset, None}, BOOLEAN, BOOLEAN, {FALSE}, {TRUE})
    /\ reports = DefaultReports
    /\ UrlDefaults
    /\ BuilderDefaults
    /\ CommandDefaults

ManagedNext ==
    \/ \E c \in Configs, ok \in BOOLEAN, sup \in Instances : Read(c, ok, sup)
    \/ \E c \in Configs, ok \in BOOLEAN, sup \in Instances : GetUrl(c, NoUrl, ok, sup)
    \/ \E c \in Configs : IsDriverSet(c)
    \/ \E c \in Configs, service \in BOOLEAN, err \in BOOLEAN :
          IsDriverAlive(c, service, err)
    \/ \E d \in Instances : Crash(d)

ManagedSpec == ManagedInit /\ [][ManagedNext]_vars

\* The teardown of drivers whose quit() can fail.
QuitFailureInit ==
    /\ Fresh1({Unset}, {FALSE}, {TRUE}, BOOLEAN, {TRUE})
    /\ reports = DefaultReports
    /\ UrlDefaults
    /\ BuilderDefaults
    /\ CommandDefaults

QuitFailureNext ==
    \/ \E c \in Configs, ok \in BOOLEAN, sup \in Instances : Read(c, ok, sup)
    \/ \E c \in Configs, value \in Values : Assign(c, value)
    \/ \E c \in Configs, value \in Values, qerr \in BOOLEAN, stays \in BOOLEAN :
          TeardownQuit(c, value, qerr, stays)
    \/ \E d \in Instances : Crash(d)

QuitFailureSpec == QuitFailureInit /\ [][QuitFailureNext]_vars

\* The waits of one config, one after the other, under any timeout.
WaitInit ==
    /\ Fresh1({Unset}, {FALSE}, {TRUE}, {FALSE}, {TRUE})
    /\ reports \in ConfiguredReports
    /\ UrlDefaults
    /\ BuilderDefaults
    /\ CommandDefaults

WaitNext ==
    \/ \E timeout \in 0..MaxTimeout : WaitUntil(timeout)
    \/ \E outcome \in Outcomes, dur \in 0..MaxEvalTime : Evaluate(outcome, dur)
    \/ Sleep
    \/ OrFailWith
    \/ \E out \in CaptureOutcomes, sup \in Instances : Hook(out, sup)

WaitSpec == WaitInit /\ [][WaitNext]_vars

\* A config with the default flags and the copies with_ makes of it, all
\* in use while the process runs.
CopyInit ==
    /\ Fresh1({Unset}, {FALSE}, {TRUE}, {FALSE}, BOOLEAN)
    /\ reports = DefaultReports
    /\ UrlDefaults
    /\ BuilderDefaults
    /\ CommandDefaults

CopyNext ==
    \/ \E c \in Configs, keys \in SUBSET Keys, dv \in Values, rv \in BOOLEAN :
          With(c, keys, dv, rv)
    \/ \E c \in Configs, ok \in BOOLEAN, sup \in Instances : Read(c, ok, sup)
    \/ \E c \in Configs, value \in Values : Assign(c, value)
    \/ \E d \in Instances : Crash(d)

CopySpec == CopyInit /\ [][CopyNext]_vars

\* Drivers built and assigned while hold_driver_at_exit has its default,
\* off; the flag set, on or off, at any time before the exit.
HoldInit ==
    /\ Fresh1({Unset}, {FALSE}, {TRUE}, {FALSE}, {TRUE})
    /\ reports = DefaultReports
    /\ UrlDefaults
    /\ BuilderDefaults
    /\ CommandDefaults

HoldNext ==
    \/ /\ ~hold_driver_at_exit
       /\ \E c \in Configs, ok \in BOOLEAN, sup \in Instances : Read(c, ok, sup)
    \/ /\ ~hold_driver_at_exit
       /\ \E c \in Configs, value \in Values : Assign(c, value)
    \/ \E value \in BOOLEAN : SetHoldDriverAtExit(value)
    \/ \E d \in Instances : Crash(d)
    \/ Exit

HoldSpec == HoldInit /\ [][HoldNext]_vars

\* Threads that read config.driver of one config, whose handle starts
\* unset, with no lock between them: any thread may take any of its steps.
ThreadInit ==
    /\ Fresh1({Unset}, BOOLEAN, {TRUE}, {FALSE}, {TRUE})
    /\ reports = DefaultReports
    /\ UrlDefaults
    /\ BuilderDefaults
    /\ CommandDefaults

ThreadNext ==
    \/ \E t \in Threads : GetCheck(t, 1)
    \/ \E t \in Threads, ok \in BOOLEAN : GetBuild(t, 1, ok)
    \/ \E t \in Threads : GetStore(t, 1)
    \/ \E t \in Threads : GetSchedule(t, 1)
    \/ \E t \in Threads : GetReturn(t, 1)
    \/ \E t \in Threads : GetDone(t)
    \/ \E d \in Instances : Crash(d)

ThreadSpec == ThreadInit /\ [][ThreadNext]_vars

\* One config whose base_url and _get_base_url_on_open_with_no_args are set
\* at construction, opened with and without a url.
UrlInit ==
    /\ Fresh1({Unset}, {FALSE}, BOOLEAN, {FALSE}, {TRUE})
    /\ reports = DefaultReports
    /\ base_url \in BaseUrls
    /\ get_base_url_on_open_with_no_args \in BOOLEAN
    /\ location = [d \in Instances |-> NoUrl]
    /\ BuilderDefaults
    /\ CommandDefaults

UrlNext ==
    \/ \E c \in Configs, url \in Urls, ok \in BOOLEAN, sup \in Instances :
          GetUrl(c, url, ok, sup)
    \/ \E c \in Configs, value \in Values : Reset(c, value)
    \/ \E d \in Instances : Crash(d)

UrlSpec == UrlInit /\ [][UrlNext]_vars

\* The options the default builder reads, set in any order, and the builder
\* applied to them.
BuilderInit ==
    /\ Fresh1({Unset}, {FALSE}, {TRUE}, {FALSE}, {TRUE})
    /\ reports = DefaultReports
    /\ UrlDefaults
    /\ BuilderDefaults
    /\ CommandDefaults

BuilderNext ==
    \/ \E name \in DriverNames : SetDriverName(name)
    \/ \E url \in RemoteUrls : SetDriverRemoteUrl(url)
    \/ \E options \in DriverOptions : SetDriverOptions(options)
    \/ BuildDriver

BuilderSpec == BuilderInit /\ [][BuilderNext]_vars

\* Commands built and called on a subject.
CommandInit ==
    /\ Fresh1({Unset}, {FALSE}, {TRUE}, {FALSE}, {TRUE})
    /\ reports = DefaultReports
    /\ UrlDefaults
    /\ BuilderDefaults
    /\ CommandDefaults

CommandNext ==
    \/ \E text \in Texts : PressSequentially(text)
    \/ \E x \in Offsets, y \in Offsets : DragAndDropByOffset(x, y)
    \/ \E t \in Texts, fails \in BOOLEAN, copy_fails \in BOOLEAN :
          \/ Paste(Str(t), fails, copy_fails)
          \/ Paste(Subject, fails, copy_fails)
    \/ \E t \in Paths, fails \in BOOLEAN :
          \/ SaveScreenshot(Str(t), fails)
          \/ SaveScreenshot(Subject, fails)
    \/ \E fails \in BOOLEAN, copy_fails \in BOOLEAN : Perform(fails, copy_fails)

CommandSpec == CommandInit /\ [][CommandNext]_vars

\* ---------------------------------------------------------------- claims
Fresh(v) == v.k = "instance" /\ v.id = created + 1

\* C1: a read of config.driver (directly or inside get_url) that finds the
\* handle unset, `...` or None, invokes build_driver_strategy exactly once;
\* when the builder returns, the built instance is a new one, it is stored
\* in the handle, one teardown is registered for it with the config, and
\* it is what the read returns.
C1_UnsetReadBuildsStoresSchedules ==
    [][\A c \in Configs :
        (last'.op \in {"read", "get_url"} /\ last'.config = c
            /\ ~is_driver_set_strategy(Handle(c)))
        => /\ last'.builds = 1
           /\ last'.probes = 0
           /\ ~last'.raised =>
                /\ Fresh(last'.ret)
                /\ created' = created + 1
                /\ Handle(c)' = last'.ret
                /\ atexit' = Append(atexit, [config |-> c, value |-> last'.ret])
                /\ alive'[last'.ret.id]]_vars

C1_Witness ==
    /\ last.op = "read"
    /\ last.pre = None
    /\ last.builds = 1
    /\ ~last.raised
    /\ Handle(last.config) = last.ret
    /\ atexit = <<[config |-> last.config, value |-> last.ret]>>

\* C2: with rebuild_not_alive_driver off, a read of a handle that holds a
\* driver instance returns that instance, alive or not, without invoking
\* the builder or the liveness probe and without changing the handle; and
\* the handle stops holding the instance only by an assignment (a reset is
\* one) or by the weak reset of get_url on a dead instance.
C2_InstanceReusedWhileRebuildOff ==
    [][\A c \in Configs :
        (c <= nconfigs /\ ~rebuild_not_alive_driver[c] /\ Handle(c).k = "instance")
        => /\ (last'.op = "read" /\ last'.config = c)
                => /\ last'.ret = Handle(c)
                   /\ ~last'.raised
                   /\ last'.builds = 0
                   /\ last'.probes = 0
                   /\ UNCHANGED <<box_value, created, atexit>>
           /\ Handle(c)' # Handle(c)
                => \/ last'.op = "assign"
                   \/ /\ last'.op = "get_url"
                      /\ reset_not_alive_driver_on_get_url
                      /\ ~alive[Handle(c).id]]_vars

C2_Witness ==
    /\ last.op = "read"
    /\ ~rebuild_not_alive_driver[last.config]
    /\ last.pre.k = "instance"
    /\ ~alive[last.pre.id]
    /\ last.ret = last.pre
    /\ Handle(last.config) = last.pre

\* C3: while the handle holds a callable, a read of config.driver (directly
\* or inside get_url) calls it exactly once and returns what it returned;
\* the handle still holds the callable, the builder and the liveness probe
\* are not invoked and no teardown is registered, whatever the two rebuild
\* flags are; assigning the callable registers no teardown either.
C3_SupplierCalledEachRead ==
    [][\A c \in Configs :
        /\ (last'.op \in {"read", "get_url"} /\ last'.config = c
               /\ callable(Handle(c)))
           => /\ last'.calls = 1
              /\ last'.ret.k = "instance" /\ last'.ret.id \in 1..created'
              /\ ~last'.raised
              /\ last'.builds = 0
              /\ last'.probes = 0
              /\ UNCHANGED <<box_value, atexit>>
        /\ (last'.op = "assign" /\ last'.config = c /\ callable(Handle(c)'))
           => atexit' = atexit]_vars

C3_Witness ==
    /\ last.op = "get_url"
    /\ last.pre = TheSupplier
    /\ last.calls = 1
    /\ Handle(last.config) = TheSupplier
    /\ rebuild_not_alive_driver[last.config]
    /\ reset_not_alive_driver_on_get_url
    /\ ~alive[last.ret.id]

\* C4: with rebuild_not_alive_driver on, a read of a handle that holds a
\* driver instance probes its liveness once; if it is not alive the builder
\* is invoked exactly once and, when it returns, the handle holds the new
\* instance instead of the dead one and the read returns the new one; if
\* it is alive the read returns it and builds nothing.
C4_StrongRebuildsDeadOnRead ==
    [][\A c \in Configs :
        (last'.op = "read" /\ last'.config = c
            /\ rebuild_not_alive_driver[c] /\ Handle(c).k = "instance")
        => /\ last'.probes = 1
           /\ ~alive[Handle(c).id] =>
                /\ last'.builds = 1
                /\ ~last'.raised =>
                     /\ Fresh(last'.ret)
                     /\ last'.ret # Handle(c)
                     /\ Handle(c)' = last'.ret
                     /\ created' = created + 1
           /\ alive[Handle(c).id] =>
                /\ last'.builds = 0
                /\ ~last'.raised
                /\ last'.ret = Handle(c)
                /\ UNCHANGED <<box_value, created, atexit>>]_vars

C4_Witness ==
    /\ last.op = "read"
    /\ rebuild_not_alive_driver[last.config]
    /\ last.pre.k = "instance"
    /\ ~alive[last.pre.id]
    /\ last.builds = 1
    /\ ~last.raised
    /\ last.ret # last.pre
    /\ Handle(last.config) = last.ret

\* C5: with the weak reset on and rebuild_not_alive_driver off, get_url on
\* a handle that holds a dead driver instance probes liveness, resets the
\* handle and invokes the builder once, so that the navigation uses the
\* new instance; a plain read of config.driver does not probe and returns
\* the dead instance, leaving the handle as it is.
C5_WeakResetOnlyInGetUrl ==
    [][\A c \in Configs :
        (/\ last'.config = c
         /\ reset_not_alive_driver_on_get_url
         /\ ~rebuild_not_alive_driver[c]
         /\ Handle(c).k = "instance")
        => /\ last'.op = "get_url" =>
                /\ last'.probes = 1
                /\ ~alive[Handle(c).id] =>
                     /\ last'.builds = 1
                     /\ last'.raised => Handle(c)' = Unset
                     /\ ~last'.raised =>
                          /\ Fresh(last'.ret)
                          /\ Handle(c)' = last'.ret
                /\ alive[Handle(c).id] =>
                     /\ last'.builds = 0
                     /\ last'.ret = Handle(c)
                     /\ Handle(c)' = Handle(c)
           /\ last'.op = "read" =>
                /\ last'.probes = 0
                /\ last'.builds = 0
                /\ last'.ret = Handle(c)
                /\ Handle(c)' = Handle(c)]_vars

C5_Witness ==
    /\ last.op = "get_url"
    /\ reset_not_alive_driver_on_get_url
    /\ ~rebuild_not_alive_driver[last.config]
    /\ last.pre.k = "instance"
    /\ ~alive[last.pre.id]
    /\ last.builds = 1
    /\ ~last.raised
    /\ Handle(last.config) = last.ret
    /\ last.ret # last.pre

Registered(d) == {i \in 1..Len(atexit) : atexit[i].value = Inst(d)}

C7_TeardownGuards ==
    [][last'.op = "teardown" =>
        LET driver == last'.ret
            quitting == /\ ~hold_driver_at_exit
                        /\ driver \notin {Unset, None}
                        /\ driver.k = "instance"
                        /\ alive[driver.id]
        IN  /\ quitting =>
                 /\ quits' = [quits EXCEPT ![driver.id] = @ + 1]
                 /\ alive' = [alive EXCEPT ![driver.id] = FALSE]
            /\ ~quitting => UNCHANGED <<quits, alive>>
            /\ UNCHANGED <<box_value, atexit, created>>]_vars

C7_Witness ==
    /\ last.op = "teardown"
    /\ hold_driver_at_exit
    /\ last.ret.k = "instance"
    /\ alive[last.ret.id]
    /\ quits[last.ret.id] = 0

\* C8: when the process exits with hold_driver_at_exit off, every instance
\* that a config built or was given as a value and that is alive at that
\* moment is quit by the exit callbacks, whether or not a handle still
\* holds it.
C8_ExitQuitsEveryManagedAlive ==
    [][(last'.op = "exit" /\ ~hold_driver_at_exit)
        => \A d \in managed :
              alive[d] => /\ ~alive'[d]
                          /\ quits'[d] = quits[d] + 1
                          /\ d \in last'.quit]_vars

C8_Witness ==
    /\ last.op = "exit"
    /\ ~hold_driver_at_exit
    /\ \E d \in managed :
          /\ d \in last.quit
          /\ \A c \in 1..nconfigs : Handle(c) # Inst(d)

\* C9, as claimed: after B = A.with_(timeout=10), no assignment, reset or
\* read through one of the two changes the handle of the other.
C9_CopyWithTimeoutIsIsolated ==
    [][(/\ last.op = "with_"
        /\ last.keys = {KeyTimeout}
        /\ last'.op \in {"assign", "read", "get_url"}
        /\ last'.config \in {last.config, last.src})
        => LET other == IF last'.config = last.config
                        THEN last.src ELSE last.config
           IN  box_value'[driver_box[other]] = box_value[driver_box[other]]]_vars

\* The options of a with_ call that give the copy a driver Box of its own.
OverridesDriver(keys) ==
    \/ KeyDriver \in keys
    \/ /\ override_driver_with_all_driver_like_options
       /\ \E key \in keys : contains_driver(key)

\* C9, amended: with_ gives the copy a driver Box of its own exactly when
\* the driver is overridden ('driver' is passed, or a key containing
\* 'driver' is while _override_driver_with_all_driver_like_options is on),
\* and otherwise, as for with_(timeout=10), the Box of the source; an
\* assignment, a reset or a read through a config changes no handle that
\* lives in another Box than its own, and with_ changes no handle of an
\* existing config.
C9_IsolationOnlyWithOwnBox ==
    [][/\ last'.op = "with_" =>
            LET n == last'.config IN
            /\ OverridesDriver(last'.keys) =>
                 /\ driver_box'[n] = n
                 /\ \A a \in 1..nconfigs : driver_box[a] # n
            /\ ~OverridesDriver(last'.keys) =>
                 driver_box'[n] = driver_box[last'.src]
            /\ \A a \in 1..nconfigs :
                 driver_box'[a] = driver_box[a] /\ Handle(a)' = Handle(a)
       /\ last'.op \in {"assign", "read", "get_url"} =>
            \A a \in 1..nconfigs :
                driver_box[a] # driver_box[last'.config]
                    => Handle(a)' = Handle(a)]_vars

C9_Witness ==
    /\ nconfigs >= 2
    /\ last.op = "assign"
    /\ last.config = 2
    /\ driver_box[2] # driver_box[1]
    /\ Handle(2) # last.pre
    /\ Handle(1).k = "instance"
    /\ Handle(1) # Handle(2)

\* C10: with _override_driver_with_all_driver_like_options on, with_ called
\* with a key containing 'driver' but without 'driver' returns a config
\* whose handle is unset in a Box of its own and leaves every existing
\* handle as it was, and the first read of the copy then builds a new
\* instance, other than the one the source holds, without touching the
\* source's handle; with 'driver' passed, the copy's handle holds the value
\* passed, in a Box of its own.
C10_ImplicitDriverReset ==
    [][/\ last'.op = "with_" =>
            LET n    == last'.config
                keys == last'.keys
            IN
            /\ (/\ override_driver_with_all_driver_like_options
                /\ KeyDriver \notin keys
                /\ \E key \in keys : contains_driver(key))
               => /\ driver_box'[n] = n
                  /\ box_value'[n] = Unset
                  /\ \A a \in 1..nconfigs :
                        /\ driver_box'[a] = driver_box[a]
                        /\ driver_box[a] # n
                        /\ Handle(a)' = Handle(a)
            /\ KeyDriver \in keys
               => /\ driver_box'[n] = n
                  /\ box_value'[n] = last'.ret
       /\ (/\ last.op = "with_"
           /\ override_driver_with_all_driver_like_options
           /\ KeyDriver \notin last.keys
           /\ \E key \in last.keys : contains_driver(key)
           /\ last'.op = "read"
           /\ last'.config = last.config)
          => /\ last'.builds = 1
             /\ box_value'[driver_box[last.src]] = Handle(last.src)
             /\ ~last'.raised =>
                  /\ Fresh(last'.ret)
                  /\ last'.ret # Handle(last.src)
                  /\ box_value'[driver_box[last.config]] = last'.ret]_vars

C10_Witness ==
    /\ last.op = "with_"
    /\ override_driver_with_all_driver_like_options
    /\ last.keys = {KeyDriverName}
    /\ Handle(last.config) = Unset
    /\ Handle(last.src).k = "instance"
    /\ driver_box[last.config] # driver_box[last.src]

\* C11: with_ called without the driver being overridden (no 'driver' key,
\* and the flag off or no key containing 'driver') returns a copy whose
\* driver lives in the Box of the source, building and registering
\* nothing; and once the source has built its driver, a read of driver on
\* a config that shares its Box returns that very instance, invokes no
\* builder and leaves the handle as it is.
C11_CopySharesDriverStorage ==
    [][/\ (last'.op = "with_" /\ ~OverridesDriver(last'.keys))
          => /\ driver_box'[last'.config] = driver_box[last'.src]
             /\ box_value'[driver_box'[last'.config]] = Handle(last'.src)
             /\ UNCHANGED <<box_value, atexit, created>>
       /\ (/\ last.op \in {"read", "get_url"}
           /\ last.builds = 1
           /\ ~last.raised
           /\ last'.op = "read"
           /\ last'.config # last.config
           /\ driver_box[last'.config] = driver_box[last.config])
          => /\ last'.ret = last.ret
             /\ ~last'.raised
             /\ last'.builds = 0
             /\ UNCHANGED <<box_value, atexit, created>>]_vars

C11_Witness ==
    /\ last.op = "read"
    /\ last.config = 2
    /\ driver_box[2] = driver_box[1]
    /\ last.builds = 0
    /\ last.ret.k = "instance"
    /\ Handle(1) = last.ret
    /\ atexit = <<[config |-> 1, value |-> last.ret]>>
    /\ alive[last.ret.id]

\* C12: is_driver_set answers true exactly when the raw value of the handle
\* is neither `...` nor None, so true for a driver instance alive or dead
\* and for a callable, false for an unset handle; evaluating it builds no
\* driver, calls no supplier, probes nothing and changes nothing.
C12_IsDriverSetReadsRawHandle ==
    [][last'.op = "is_driver_set" =>
        LET v == Handle(last'.config) IN
        /\ last'.answer <=> (v # Unset /\ v # None)
        /\ (v.k = "instance" \/ callable(v)) => last'.answer
        /\ last'.builds = 0
        /\ last'.calls = 0
        /\ last'.probes = 0
        /\ ~last'.raised
        /\ UNCHANGED <<box_value, atexit, created, alive, quits>>]_vars

C12_Witness ==
    /\ last.op = "is_driver_set"
    /\ last.answer
    /\ last.pre.k = "instance"
    /\ ~alive[last.pre.id]
    /\ Handle(last.config) = last.pre

\* C13, as claimed: is_driver_alive never raises, whatever the handle
\* holds and whatever error the probe runs into.
C13_IsDriverAliveNeverRaises ==
    last.op = "is_driver_alive" => ~last.raised

\* C14: an assignment that resets the handle (config.driver = ... or None)
\* leaves it unset and quits nothing at that moment: the driver it held is
\* as alive as before and no instance is made; the next read of
\* config.driver then invokes the builder once and, when it returns, the
\* handle holds a new instance, other than the one held before the reset.
C14_ResetQuitsNothingThenReadBuilds ==
    [][/\ (/\ last'.op = "assign"
           /\ box_value'[driver_box[last'.config]] \in {Unset, None})
          => /\ ~is_driver_set_strategy(box_value'[driver_box[last'.config]])
             /\ last'.quit = {}
             /\ UNCHANGED <<quits, alive, created>>
       /\ (/\ last.op = "assign"
           /\ Handle(last.config) \in {Unset, None}
           /\ last'.op = "read"
           /\ last'.config = last.config)
          => /\ last'.builds = 1
             /\ ~last'.raised =>
                  /\ Fresh(last'.ret)
                  /\ last'.ret # last.pre
                  /\ box_value'[driver_box[last.config]] = last'.ret]_vars

C14_Witness ==
    /\ last.op = "read"
    /\ last.pre = None
    /\ last.builds = 1
    /\ ~last.raised
    /\ Len(atexit) = 3
    /\ atexit[1].value.k = "instance"
    /\ alive[atexit[1].value.id]
    /\ atexit[2].value = None
    /\ atexit[3].value = last.ret
    /\ last.ret # atexit[1].value
    /\ Handle(last.config) = last.ret

\* C15: a read of config.driver during which build_driver_strategy raises
\* ends with that error after exactly one invocation of the builder; the
\* handle holds what it held before the read, which is `...`, None, or,
\* under rebuild_not_alive_driver, the dead instance; no teardown is
\* registered and no instance is made; and no read invokes the builder
\* more than once.
C15_BuildFailurePropagates ==
    [][/\ (last'.op = "read" /\ last'.raised)
          => LET c == last'.config IN
             /\ last'.builds = 1
             /\ last'.calls = 0
             /\ UNCHANGED <<box_value, atexit, created, alive, quits, managed>>
             /\ \/ Handle(c) \in {Unset, None}
                \/ /\ Handle(c).k = "instance"
                   /\ rebuild_not_alive_driver[c]
                   /\ ~alive[Handle(c).id]
       /\ last'.op \in {"read", "get_url"} => last'.builds <= 1]_vars

C15_Witness ==
    /\ last.op = "read"
    /\ last.raised
    /\ last.builds = 1
    /\ last.pre.k = "instance"
    /\ ~alive[last.pre.id]
    /\ rebuild_not_alive_driver[last.config]
    /\ Handle(last.config) = last.pre
    /\ Len(atexit) = 1

\* C16, as claimed: no teardown call ends with an error, even when the
\* driver.quit() it makes raises.
C16_TeardownNeverRaises ==
    last.op = "teardown" => ~last.raised

\* C17: while the handle of a config is only read, directly or by get_url,
\* and never assigned or reset by the user, at most one of the instances
\* built for it is alive at any time, and an instance is built only by an
\* access that finds the handle unset or holding an instance that is not
\* alive.
C17_AtMostOneBuiltAlive ==
    [][/\ Cardinality({d \in managed' : alive'[d]}) <= 1
       /\ created' # created =>
            LET v == Handle(last'.config) IN
            /\ last'.op \in {"read", "get_url"}
            /\ last'.builds = 1
            /\ \/ ~is_driver_set_strategy(v)
               \/ v.k = "instance" /\ ~alive[v.id]]_vars

C17_Witness ==
    /\ last.op = "get_url"
    /\ last.builds = 1
    /\ created = 2
    /\ managed = {1, 2}
    /\ ~alive[1]
    /\ alive[2]
    /\ Handle(last.config) = Inst(2)

\* What a wait did so far: its evaluations and its sleeps.
Evals(w)  == Cardinality({i \in DOMAIN w.log : w.log[i] \in Outcomes})
Sleeps(w) == Cardinality({i \in DOMAIN w.log : w.log[i] = "sleep"})
Finished(w) == w.pc \in {"returned", "raised", "timed_out"}

\* C18: a wait built from a config whose timeout is 0 never sleeps and
\* evaluates the condition once: it has made exactly one evaluation when
\* it ends, with a value or with a failure, and none more at any moment.
C18_TimeoutFloor ==
    (wait.pc # "none" /\ wait.timeout = 0)
    => /\ Sleeps(wait) = 0
       /\ wait.pc # "sleep"
       /\ Evals(wait) <= 1
       /\ Finished(wait) <=> Evals(wait) = 1

C18_Witness ==
    /\ wait.timeout = 0
    /\ wait.pc = "timed_out"
    /\ wait.log = <<"transient", "hook">>

\* C19: a wait that returned made k evaluations, the first k-1 of them
\* transient failures and the k-th the success, with exactly one sleep of
\* the poll interval after each failure and none after the success; it
\* never went through the timeout path.
C19_SuccessShortCircuit ==
    wait.pc = "returned"
    => LET log == wait.log
           k   == Evals(wait)
       IN  /\ k >= 1
           /\ Len(log) = 2 * k - 1
           /\ Sleeps(wait) = k - 1
           /\ \A i \in DOMAIN log :
                 log[i] = IF i = Len(log) THEN "success"
                          ELSE IF i % 2 = 1 THEN "transient" ELSE "sleep"
           /\ wait.elapsed >= (k - 1) * PollInterval
           /\ wait.elapsed <= (k - 1) * PollInterval + k * MaxEvalTime

C19_Witness ==
    /\ wait.pc = "returned"
    /\ wait.log = <<"transient", "sleep", "transient", "sleep", "success">>
    /\ wait.elapsed = 2 * PollInterval

\* C20: once the condition raised a fatal error the wait is over: the
\* error is raised by the wait, the fatal attempt is the last thing the
\* wait did, with no evaluation and no sleep after it, the hook chain of
\* the timeout path is not entered, and this does not depend on how much
\* of the timeout is left.
C20_FatalBypass ==
    (\E i \in DOMAIN wait.log : wait.log[i] = "fatal")
    => /\ wait.pc = "raised"
       /\ wait.log[Len(wait.log)] = "fatal"
       /\ \A i \in DOMAIN wait.log :
             /\ wait.log[i] # "hook"
             /\ wait.log[i] = "fatal" => i = Len(wait.log)

C20_Witness ==
    /\ wait.pc = "raised"
    /\ wait.log = <<"fatal">>
    /\ wait.elapsed = 0
    /\ wait.at_most = MaxTimeout

\* The hooks a config's options ask for, in the documented order.
ConfiguredHooks(r) ==
    (IF r.save_screenshot_on_failure THEN <<"Screenshot">> ELSE <<>>)
    \o (IF r.save_page_source_on_failure THEN <<"PageSource">> ELSE <<>>)
    \o (IF r.hook_wait_failure THEN <<"user">> ELSE <<>>)

\* The hooks that left their mark on an error, in the order they ran.
HooksOf(error) == [i \in DOMAIN error.msg |-> error.msg[i].hook]

\* The error of the timeout path has reached the caller of the wait.
Reached(w) == w.pc = "timed_out" /\ w.error # NoError /\ w.chain = <<>>

\* C21: a TimeoutException that reaches the caller of a wait carries the
\* mark of every enabled hook (screenshot, page source, user hook), each
\* exactly once; and hooks run only on the timeout path: a wait that is
\* evaluating, sleeping, returned or raised a fatal error has no error
\* from the chain, and the reports change only while a timed-out wait has
\* hooks left to run.
C21_TimeoutErrorPassesWholeChain ==
    [][/\ (Reached(wait') /\ wait'.error.kind = "TimeoutException")
          => HooksOf(wait'.error) = ConfiguredHooks(reports')
       /\ wait'.pc # "timed_out" => (wait'.error = NoError /\ wait'.chain = <<>>)
       /\ reports' # reports => (wait.pc = "timed_out" /\ wait.chain # <<>>)
       /\ (wait.pc # "timed_out" /\ wait'.pc = wait.pc) => UNCHANGED reports]_vars

C21_Witness ==
    /\ Reached(wait)
    /\ wait.error.kind = "TimeoutException"
    /\ HooksOf(wait.error) = <<"Screenshot", "PageSource", "user">>
    /\ Len(reports.writes) = 2

\* The place of a hook in the documented order.
Rank(h) == CASE h = "Screenshot" -> 1 [] h = "PageSource" -> 2 [] h = "user" -> 3

\* The built-in hooks a config's options ask for.
BuiltInHooks(r) ==
    (IF r.save_screenshot_on_failure THEN <<"Screenshot">> ELSE <<>>)
    \o (IF r.save_page_source_on_failure THEN <<"PageSource">> ELSE <<>>)

\* C22: the hooks run in the order screenshot, page source, user hook: the
\* marks on the error are always in that order, the hooks still to run all
\* come later in that order, and when the user hook is the next to run the
\* error it is about to get carries the notes of exactly the enabled
\* built-in hooks; a disabled hook leaves no mark and moves no other.
C22_HooksInFixedOrder ==
    (wait.pc = "timed_out" /\ wait.error.kind = "TimeoutException") =>
        LET done == HooksOf(wait.error) IN
        /\ \A i, j \in DOMAIN done : i < j => Rank(done[i]) < Rank(done[j])
        /\ \A i \in DOMAIN done, j \in DOMAIN wait.chain :
               Rank(done[i]) < Rank(wait.chain[j])
        /\ (wait.chain # <<>> /\ Head(wait.chain) = "user")
               => done = BuiltInHooks(reports)
        /\ (~reports.save_screenshot_on_failure)
               => \A i \in DOMAIN done : done[i] # "Screenshot"
        /\ (~reports.save_page_source_on_failure)
               => \A i \in DOMAIN done : done[i] # "PageSource"

C22_Witness ==
    /\ wait.pc = "timed_out"
    /\ wait.chain = <<"user">>
    /\ ~reports.save_screenshot_on_failure
    /\ HooksOf(wait.error) = <<"PageSource">>

\* The note a built-in hook leaves when its capture raised a driver error.
FailureNote(h) == [hook |-> h, text |-> "cannot be saved because of"]

\* C23: when a built-in hook runs and its capture raises a driver error (no
\* file is written and the error that leaves the hook is neither a
\* file-system nor a builder error), the hook returns a TimeoutException
\* whose message is the message it was given followed by the note "cannot
\* be saved because of", and the hooks after it are all still to be applied.
C23_DriverErrorBecomesNote ==
    [][(/\ wait.pc = "timed_out"
        /\ wait.chain # <<>>
        /\ wait' # wait
        /\ Head(wait.chain) \in {"Screenshot", "PageSource"}
        /\ reports'.writes = reports.writes
        /\ wait'.error.kind \notin {"OSError", "BuilderError"})
       => /\ wait'.error.kind = "TimeoutException"
          /\ wait'.error.msg = Append(wait.error.msg, FailureNote(Head(wait.chain)))
          /\ wait'.chain = Tail(wait.chain)]_vars

C23_Witness ==
    /\ Reached(wait)
    /\ wait.error.kind = "TimeoutException"
    /\ Len(wait.error.msg) = 3
    /\ wait.error.msg[1] = FailureNote("Screenshot")
    /\ wait.error.msg[2] = FailureNote("PageSource")
    /\ wait.error.msg[3].hook = "user"

\* C24: whatever a capture hook fails with, the error that reaches the
\* caller of a timed-out wait is the TimeoutException, never the failure
\* of the capture.
C24_CaptureFailureNeverMasksTimeout ==
    Reached(wait) => wait.error.kind = "TimeoutException"

\* C25: no artifact file is written twice: any two writes of the run differ
\* in kind or in name.
C25_NoArtifactOverwritten ==
    \A i, j \in DOMAIN reports.writes :
        i # j => reports.writes[i] # reports.writes[j]

\* C30: every driver instance has at most one exit callback registered,
\* and no callback is registered for a handle that is reset to unset.
C30_AtMostOneCallbackPerInstance ==
    /\ \A d \in Instances : Cardinality(Registered(d)) <= 1
    /\ \A i \in DOMAIN atexit : atexit[i].value.k = "instance"

\* The paste shortcut, as the call the entity receives.
Shortcut == [call |-> "send_keys", arg |-> <<"COMMAND_KEY", "v">>]

\* C26: a call of the command paste(text) copies the text to the clipboard
\* and then sends the paste shortcut: it ends without an error only with
\* the text on the clipboard and the shortcut sent; when the copy fails the
\* copy's error is what the caller gets and no shortcut is sent; when the
\* shortcut fails, after the copy, the shortcut's error is what the caller
\* gets.
C26_PasteCopiesThenSendsShortcut ==
    [][(/\ result'.op = "call"
        /\ result'.command.fn = "paste"
        /\ result'.command.args.text.given)
       => /\ result'.raised \in {"none", "PyperclipException", "WebDriverException"}
          /\ result'.raised = "none" =>
                /\ clipboard' = result'.command.args.text
                /\ performed' = Append(performed, Shortcut)
          /\ result'.raised = "PyperclipException" =>
                /\ clipboard' = clipboard
                /\ performed' = performed
          /\ result'.raised = "WebDriverException" =>
                /\ clipboard' = result'.command.args.text
                /\ performed' = performed]_vars

C26_Witness ==
    /\ result.op = "call"
    /\ result.command.fn = "paste"
    /\ result.command.args.text = Text(<<"a", "b">>)
    /\ result.raised = "PyperclipException"
    /\ clipboard = Text(<<"c">>)
    /\ performed = <<Shortcut>>

\* A name has the text in it, part after part.
Contains(name, text) ==
    \E i \in 1..Len(name) :
        /\ i + Len(text) - 1 <= Len(name)
        /\ SubSeq(name, i, i + Len(text) - 1) = text

\* The parameter values a built Command closes over, as they are printed.
Params(cmd) ==
    IF cmd.fn = "drag_and_drop_by_offset"
    THEN {<<ToString(cmd.args.x)>>, <<ToString(cmd.args.y)>>}
    ELSE IF cmd.args.text.given THEN {cmd.args.text.text} ELSE {}

\* C27: building a parameterized command (press_sequentially(text),
\* paste(text), save_screenshot(path), drag_and_drop_by_offset(x, y))
\* returns a Command whose name has every parameter value in it and leaves
\* the clipboard and every subject untouched; calls reach a subject only in
\* a step that invokes a command.
C27_BuildingOnlyBuilds ==
    [][/\ result'.op = "build" =>
            /\ result'.raised = "none"
            /\ command' = result'.command
            /\ command' # NoCommand
            /\ \A p \in Params(command') : Contains(command'.name, p)
            /\ UNCHANGED <<clipboard, performed>>
       /\ performed' # performed => result'.op = "call"]_vars

C27_Witness ==
    /\ result.op = "build"
    /\ command.fn = "save_screenshot"
    /\ command.args.text = Text(<<"shot.png">>)
    /\ performed = <<[call |-> "drag_and_drop_by_offset", arg |-> <<"1", "2">>]>>

\* C28: with driver_remote_url set, what the default builder makes is what
\* it makes of the same options with driver_name unset.
C28_DriverNameIgnoredWithRemoteUrl ==
    (product # NoProduct /\ truthy(driver_remote_url))
    => product = build_local_driver_by_name_or_remote_by_url_and_options(
                     NoName, driver_remote_url, driver_options)

\* C29: get_url reads config.driver, which builds the driver when the
\* handle is unset; with no url it navigates nowhere unless base_url is not
\* empty and _get_base_url_on_open_with_no_args is on, and then to
\* base_url; with a url it navigates to the url when it is absolute and to
\* base_url + url when it is not; a get_url that raises navigates nowhere.
C29_GetUrlNavigation ==
    [][\A c \in Configs :
        (last'.op = "get_url" /\ last'.config = c)
        => LET url == last'.url
               on_open == base_url # <<>> /\ get_base_url_on_open_with_no_args
           IN
           /\ Handle(c) = Unset =>
                /\ last'.builds = 1
                /\ ~last'.raised => (Fresh(last'.ret) /\ Handle(c)' = last'.ret)
           /\ (~url.given /\ ~on_open) => location' = location
           /\ (~url.given /\ on_open /\ ~last'.raised) =>
                location' = [location EXCEPT ![last'.ret.id] = Url(base_url)]
           /\ (url.given /\ ~last'.raised) =>
                location' = [location EXCEPT ![last'.ret.id] =
                                Url(IF is_absolute_url(url.text)
                                    THEN url.text
                                    ELSE base_url \o url.text)]
           /\ last'.raised => location' = location]_vars

C29_Witness ==
    /\ last.op = "get_url"
    /\ last.pre = Unset
    /\ ~last.url.given
    /\ ~last.raised
    /\ get_base_url_on_open_with_no_args
    /\ last.ret.k = "instance"
    /\ location[last.ret.id] = Url(<<"http://", "app">>)

\* The screenshot hook of the chain in progress saved a file.
ScreenshotOfThisChain(w) ==
    \E i \in DOMAIN w.error.msg :
        w.error.msg[i] = [hook |-> "Screenshot", text |-> "file"]

\* C33: the page source a hook chain writes is named after the screenshot
\* the same chain saved, or by a name taken from the counter in that step;
\* never after a screenshot of an earlier failure.
C33_PageSourceOfTheSameFailure ==
    [][(/\ wait.pc = "timed_out"
        /\ wait.chain # <<>>
        /\ Head(wait.chain) = "PageSource"
        /\ Len(reports'.writes) = Len(reports.writes) + 1)
       => LET id == reports'.writes[Len(reports'.writes)].id IN
          \/ ScreenshotOfThisChain(wait) /\ id = reports.last_screenshot
          \/ id = reports.counter /\ reports'.counter = reports.counter + 1]_vars

\* C32: the exit callbacks read hold_driver_at_exit when they run: at the
\* exit every instance with a callback registered that is alive is left
\* running, and not quit, when the flag is on at that moment, and is quit
\* when it is off at that moment, whatever the flag was when the callback
\* was registered.
C32_HoldReadAtExit ==
    [][last'.op = "exit"
       => \A d \in Instances :
             (Registered(d) # {} /\ alive[d])
             => IF hold_driver_at_exit
                THEN alive'[d] /\ quits'[d] = quits[d]
                ELSE ~alive'[d] /\ quits'[d] = quits[d] + 1]_vars

\* A driver scheduled while the flag was off outlives an exit with the
\* flag on.
C32_Witness ==
    /\ exited
    /\ last.op = "exit"
    /\ hold_driver_at_exit
    /\ \E d \in managed :
          /\ Registered(d) # {}
          /\ alive[d]
          /\ quits[d] = 0

\* C31: the read of config.driver is a check followed by a build with
\* nothing that makes the two one step.  A thread that found the handle
\* unset builds a new instance whatever the other threads did since, and
\* quits none; its store replaces whatever the handle held, so the handle
\* holds the instance stored last; every thread that built has a teardown
\* registered for its own instance; and a thread returns what the handle
\* holds when it reads it back, not what the handle holds afterwards.
C31_CheckThenBuildNotAtomic ==
    [][\A t \in Threads :
        /\ (threads[t].pc = "build" /\ threads'[t].pc = "store") =>
              /\ threads'[t].driver = Inst(created + 1)
              /\ alive'[created + 1]
              /\ \A d \in Instances : alive[d] => alive'[d]
              /\ box_value' = box_value
        /\ (threads[t].pc = "store" /\ threads'[t].pc = "schedule") =>
              box_value'[driver_box[1]] = threads[t].driver
        /\ (threads'[t].pc \in {"read", "done"} /\ threads'[t].driver # None) =>
              \E i \in DOMAIN atexit' : atexit'[i].value = threads'[t].driver
        /\ (threads[t].pc = "read" /\ threads'[t].pc = "done") =>
              threads'[t].ret = box_value[driver_box[1]]
        /\ quits' = quits]_vars

\* Two threads read config.driver while the handle was unset: both built,
\* both drivers are alive and registered, the handle holds the second and
\* the first thread returned the first.
C31_Witness ==
    /\ threads[1].pc = "done"
    /\ threads[2].pc = "done"
    /\ threads[1].driver = Inst(1)
    /\ threads[2].driver = Inst(2)
    /\ alive[1] /\ alive[2]
    /\ Registered(1) # {} /\ Registered(2) # {}
    /\ Handle(1) = Inst(2)
    /\ threads[1].ret = Inst(1)
    /\ threads[2].ret = Inst(2)
    /\ ~rebuild_not_alive_driver[1]

====
